---- MODULE Spec2Model ----
(***************************************************************************)
(* Model of the scoreboard maintenance scripts of go-interview-practice:   *)
(*   scripts/generate_main_scoreboard.py                                   *)
(*   scripts/generate_package_scoreboard.py                                *)
(*   scripts/generate_contributor_badges.py                                *)
(*   scripts/update_all_scoreboards.py                                     *)
(*   scripts/test_scoreboards.py                                           *)
(*                                                                         *)
(* Text is modelled as a sequence of one-character strings, so that the    *)
(* line-oriented parsing (split, strip, digit filter, int) is computed as  *)
(* the code computes it.  README.md is modelled as a sequence of tokens,   *)
(* one token per marker string the scripts search for (no marker is a      *)
(* substring of another one), per newline and per piece of other text.     *)
(***************************************************************************)
EXTENDS Integers, Sequences, FiniteSets, TLC

VARIABLES
    \* ---- scoreboard parser (parse_scoreboard_file and its package twin)
    rows,       \* the table rows the scoreboard file was written from
    file,       \* SCOREBOARD.md: whether it exists, and its content (characters)
    ppc,        \* "init", "main" (parse_scoreboard_file returned),
                \* "package" (parse_package_scoreboard_file returned)
    users,      \* the set returned by the parser
    \* ---- generate_main_scoreboard / generate_package_scoreboard
    script,     \* "main", "package": the generator that runs
    gpc,        \* "scan", "credit", "sort", "done"
    challenge_dirs,       \* main: the numbers of the challenge-* directories
    package_dirs,         \* package: sorted package names
    pkg_challenges,       \* package: package name -> number of challenge-* dirs
    pos,        \* <<package index, challenge index>> of the next directory
    board,      \* the SCOREBOARD.md of the directory visited last
    pending,    \* package: users of the current challenge still to credit
    user_completions,     \* main: user -> [count, challenges]
    package_completions,  \* package: package -> user -> count
    overall_completions,  \* package: user -> [count, packages]
    sorted_users,         \* main: the ranking (usernames)
    sorted_overall,       \* package: the overall ranking
    sorted_package_users, \* package: package -> its ranking
    \* ---- README.md and the runs of the two scripts on it
    readme,     \* README.md: whether it exists, and its content (tokens)
    before,     \* README.md as it was before the last run
    main_content,         \* what generate_main_scoreboard returns (inputs fixed)
    package_content,      \* what generate_package_scoreboard returns
    log,        \* the runs so far: <<script, exit code>>
    \* ---- update_all_scoreboards.py
    wpc,        \* "loop" (in the for loop of main), "done" (main returned)
    outcomes,   \* what happened to the sub-scripts run so far
    success_count,        \* main: the sub-scripts that succeeded so far
    exit_status,          \* what main returned (-1 before)
    \* ---- achievement and completion rate of one contributor
    tpc,        \* "init", "classic" (leaderboard row), "badge" (badge generator)
    challenges_solved,    \* the completions of the contributor (count)
    total_challenges,     \* the challenge directories of the repository
    achievement,          \* the tier chosen
    completion_rate,      \* the rate as it is rendered (characters)
    \* ---- the classic scan of the badge generator next to the one of the
    \* ---- main scoreboard, on the same challenge directories
    repo,       \* the SCOREBOARD.md of each challenge directory
    badge_todo, \* scan_classic_challenges: the directories not yet visited
    badge_completions,    \* scan_classic_challenges: user -> count
    last,       \* the last step of a scan: scanner, directory, counts before
    \* ---- one run of a script as a process, from its entry point to its end
    entry,      \* "main", "package", "badges": the script that is run
    epc,        \* "scan", "render", "update", "write", "exited"
    layout,     \* the challenge directories: name suffix and SCOREBOARD.md
    epos,       \* the index of the next directory to scan
    credited,   \* whether the scan has found a completion so far
    exit_code,  \* the exit code of the process (-1 while it runs)
    escaped,    \* the exception that left the entry point, or "none"
    \* ---- the leaderboards a generator renders from its rankings
    tree,       \* the challenge directories: package, name suffix, and the
                \* users the parser returns for their SCOREBOARD.md
    leaderboard,          \* the rows of the top-10 table
    tables,     \* package: package -> the rows of its top-5 table
    summary,    \* the figures of the summary lines
    \* ---- test_scoreboards.py: main, around README.md (the variable readme)
    backup,     \* README.md.backup
    test_pc,    \* the position of main
    scenario,   \* the number of the test scenario
    todo,       \* the scripts still to run in the scenario or idempotency test
    started,    \* README.md as each scenario found it, in order
    answer,     \* what input() returned
    ending,     \* how main ended
    \* ---- generate_contributor_badges.py: successive runs over one repository
    badges_dir, \* the per-user files of badges/: [user, suffix] -> content
    packages_tree,        \* the packages directory: whether it exists, and the
                \* scoreboards of packages/cobra/challenge-*
    package_stats,        \* what scan_package_challenges returned last
    total_classic,        \* the number of classic challenges of the last scan
    badge_runs  \* the number of runs so far

pvars == <<rows, file, ppc, users>>

gvars == <<script, gpc, challenge_dirs, package_dirs, pkg_challenges, pos, board,
           pending, user_completions, package_completions, overall_completions,
           sorted_users, sorted_overall, sorted_package_users>>

svars == <<readme, before, main_content, package_content, log>>

wvars == <<wpc, outcomes, success_count, exit_status>>

tvars == <<tpc, challenges_solved, total_challenges, achievement, completion_rate>>

cvars == <<repo, badge_todo, badge_completions, last>>

evars == <<entry, epc, layout, epos, credited, exit_code, escaped>>

rvars == <<tree, leaderboard, tables, summary>>

xvars == <<backup, test_pc, scenario, todo, started, answer, ending>>

bvars == <<badges_dir, packages_tree, package_stats, total_classic, badge_runs>>

vars == <<pvars, gvars, svars, wvars, tvars, cvars, evars, rvars, xvars, bvars>>

(***************************************************************************)
(* Characters and strings.                                                 *)
(***************************************************************************)
NL == "\n"

Digit == {"0", "1", "2", "3", "4", "5", "6", "7", "8", "9"}

Whitespace == {" ", NL}

\* str.isdigit() of one character
IsDigitChar(c) == c \in Digit

\* the value of a decimal digit
DigitVal(c) ==
    CASE c = "0" -> 0 [] c = "1" -> 1 [] c = "2" -> 2 [] c = "3" -> 3
      [] c = "4" -> 4 [] c = "5" -> 5 [] c = "6" -> 6 [] c = "7" -> 7
      [] c = "8" -> 8 [] c = "9" -> 9

\* s[i:] (0-based i, as in Python)
From(s, i) == IF i >= Len(s) THEN <<>> ELSE SubSeq(s, i + 1, Len(s))

\* s[:i]
Upto(s, i) == IF i <= 0 THEN <<>> ELSE SubSeq(s, 1, IF i > Len(s) THEN Len(s) ELSE i)

\* s.startswith(p)
StartsWith(s, p) == Len(p) <= Len(s) /\ SubSeq(s, 1, Len(p)) = p

\* p in s
Contains(s, p) == \E i \in 0..(Len(s) - Len(p)) : SubSeq(s, i + 1, i + Len(p)) = p

RECURSIVE LStrip(_)
LStrip(s) == IF s # <<>> /\ Head(s) \in Whitespace THEN LStrip(Tail(s)) ELSE s

RECURSIVE RStrip(_)
RStrip(s) ==
    IF s # <<>> /\ s[Len(s)] \in Whitespace THEN RStrip(SubSeq(s, 1, Len(s) - 1)) ELSE s

\* s.strip()
Strip(s) == RStrip(LStrip(s))

\* s.split(sep) for a one-character separator: a sequence of strings, never empty
RECURSIVE Split(_, _)
Split(s, sep) ==
    IF \E i \in 1..Len(s) : s[i] = sep
    THEN LET i == CHOOSE k \in 1..Len(s) : s[k] = sep /\ \A j \in 1..(k - 1) : s[j] # sep
         IN  <<SubSeq(s, 1, i - 1)>> \o Split(SubSeq(s, i + 1, Len(s)), sep)
    ELSE <<s>>

\* sep.join(parts)
RECURSIVE Join(_, _)
Join(parts, sep) ==
    IF parts = <<>> THEN <<>>
    ELSE IF Len(parts) = 1 THEN parts[1]
    ELSE parts[1] \o sep \o Join(Tail(parts), sep)

\* s.isdigit(): non-empty and digits only
IsDigitStr(s) == s # <<>> /\ \A i \in 1..Len(s) : IsDigitChar(s[i])

\* as if the count were converted without the digit filter: int("5 tests") fails
FilterDigits_Unfiltered(s) == IF IsDigitStr(s) THEN s ELSE <<>>

\* ''.join(filter(str.isdigit, s))
FilterDigits(s) == SelectSeq(s, IsDigitChar)

\* int(s) of a string of digits; ValueError for the empty string
ValueError == -1

RECURSIVE IntOfDigits(_)
IntOfDigits(s) ==
    IF s = <<>> THEN 0 ELSE 10 * IntOfDigits(SubSeq(s, 1, Len(s) - 1)) + DigitVal(s[Len(s)])

ParseInt(s) == IF s = <<>> THEN ValueError ELSE IntOfDigits(s)

\* str(n) for n >= 0
RECURSIVE StrOfNat(_)
StrOfNat(n) ==
    LET d == <<SubSeq(<<"0", "1", "2", "3", "4", "5", "6", "7", "8", "9">>,
                      (n % 10) + 1, (n % 10) + 1)[1]>>
    IN  IF n < 10 THEN d ELSE StrOfNat(n \div 10) \o d

(***************************************************************************)
(* parse_scoreboard_file / parse_package_scoreboard_file.                  *)
(***************************************************************************)
\* a file is [exists, content]; open() of a missing file raises FileNotFoundError
NoFile == [exists |-> FALSE, content |-> <<>>]

FileWith(text) == [exists |-> TRUE, content |-> text]

kwUsername == <<"U", "s", "e", "r", "n", "a", "m", "e">>
kwDashes == <<"-", "-", "-">>
kwPlaceholder == <<"-", "-", "-", "-", "-", "-">>

\* line 26: header and separator lines are skipped
SkippedLine(line) ==
    \/ Strip(line) = <<>>
    \/ Contains(line, kwUsername)
    \/ Contains(line, kwDashes)
    \/ StartsWith(line, <<"#">>)

\* line 31
Parts(line) ==
    LET raw == Split(line, "|") IN [i \in 1..Len(raw) |-> Strip(raw[i])]

\* line 38
BadUsername(username) ==
    username = <<>> \/ username = kwPlaceholder \/ IsDigitStr(username)

\* as if the comparison with the total were left out
Completed_AnyPassed(passed_tests, total_tests) == passed_tests > 0

\* line 47
Completed(passed_tests, total_tests) == passed_tests > 0 /\ passed_tests = total_tests

\* lines 24-56, one line of the file: the set of usernames the line adds
LineUsers(line) ==
    IF SkippedLine(line) THEN {}
    ELSE IF ~("|" \in {line[i] : i \in 1..Len(line)}) THEN {}
    ELSE LET parts == Parts(line) IN
         IF Len(parts) < 4 THEN {}
         ELSE LET username == parts[2]
                  passed_tests == ParseInt(FilterDigits(parts[3]))
                  total_tests == ParseInt(FilterDigits(parts[4]))
              IN  IF BadUsername(username) THEN {}
                  ELSE IF passed_tests = ValueError \/ total_tests = ValueError THEN {}
                  ELSE IF Completed(passed_tests, total_tests) THEN {username}
                  ELSE {}

\* a line that reaches the conversion of its counts and fails there
LineFailsToConvert(line) ==
    /\ ~SkippedLine(line)
    /\ "|" \in {line[i] : i \in 1..Len(line)}
    /\ Len(Parts(line)) >= 4
    /\ ~BadUsername(Parts(line)[2])
    /\ \/ ParseInt(FilterDigits(Parts(line)[3])) = ValueError
       \/ ParseInt(FilterDigits(Parts(line)[4])) = ValueError

\* as if a missing file gave an error entry instead of nothing
parse_scoreboard_file_MissingReported(f) ==
    IF ~f.exists THEN {<<"?">>}
    ELSE LET lines == Split(Strip(f.content), NL)
         IN  UNION {LineUsers(lines[i]) : i \in 1..Len(lines)}

\* as if a row whose counts cannot be converted ended the scan of the file
parse_scoreboard_file_Aborting(f) ==
    IF ~f.exists THEN {}
    ELSE LET lines == Split(Strip(f.content), NL)
             read == {i \in 1..Len(lines) :
                         \A j \in 1..i : ~LineFailsToConvert(lines[j])}
         IN  UNION {LineUsers(lines[i]) : i \in read}

\* lines 13-63 of generate_main_scoreboard.py
parse_scoreboard_file(f) ==
    IF ~f.exists THEN {}
    ELSE LET lines == Split(Strip(f.content), NL)
         IN  UNION {LineUsers(lines[i]) : i \in 1..Len(lines)}

\* lines 13-63 of generate_package_scoreboard.py (the same text)
parse_package_scoreboard_file(f) ==
    IF ~f.exists THEN {}
    ELSE LET lines == Split(Strip(f.content), NL)
         IN  UNION {LineUsers(lines[i]) : i \in 1..Len(lines)}

(***************************************************************************)
(* The values of the variables of a part of the program that is not run.   *)
(***************************************************************************)
\* the parser is not run on its own
PIdle == rows = <<>> /\ file = NoFile /\ ppc = "off" /\ users = {}

\* no generator is run
GIdle ==
    /\ script = "off" /\ gpc = "off"
    /\ challenge_dirs = <<>> /\ package_dirs = <<>> /\ pkg_challenges = <<>>
    /\ pos = <<0, 0>> /\ board = NoFile /\ pending = {}
    /\ user_completions = <<>> /\ package_completions = <<>>
    /\ overall_completions = <<>>
    /\ sorted_users = <<>> /\ sorted_overall = <<>> /\ sorted_package_users = <<>>

\* no script is run on README.md
SIdle ==
    /\ readme = NoFile /\ before = NoFile
    /\ main_content = <<>> /\ package_content = <<>> /\ log = <<>>

\* the wrapper is not run
WIdle == wpc = "off" /\ outcomes = <<>> /\ success_count = 0 /\ exit_status = 0 - 1

\* no tier is computed
TIdle ==
    /\ tpc = "off" /\ challenges_solved = 0 /\ total_challenges = 0
    /\ achievement = "" /\ completion_rate = <<>>

\* the two classic scans are not compared
NoStep == [scanner |-> "none", dir |-> 0, before |-> <<>>]

CIdle ==
    /\ repo = <<>> /\ badge_todo = {} /\ badge_completions = <<>> /\ last = NoStep

\* no script is followed from its entry point
EIdle ==
    /\ entry = "off" /\ epc = "off" /\ layout = <<>> /\ epos = 0
    /\ credited = FALSE /\ exit_code = 0 - 1 /\ escaped = "none"

\* nothing is rendered
NoSummary == [total |-> 0, active |-> 0, most_count |-> 0, most_user |-> <<>>]

RIdle == tree = <<>> /\ leaderboard = <<>> /\ tables = <<>> /\ summary = NoSummary

\* the test script is not run
XIdle ==
    /\ backup = NoFile /\ test_pc = "off" /\ scenario = 0 /\ todo = <<>>
    /\ started = <<>> /\ answer = <<>> /\ ending = "none"

\* a repository without a packages directory
NoPackages == [exists |-> FALSE, dirs |-> <<>>]

\* the badge generator is not run again and again
BIdle ==
    /\ badges_dir = <<>> /\ packages_tree = NoPackages /\ package_stats = <<>>
    /\ total_classic = 0 /\ badge_runs = 0

(***************************************************************************)
(* The scoreboard files the parser is run on: written from table rows in   *)
(* the layout of the repository's SCOREBOARD.md files,                     *)
(*     # Scoreboard                                                        *)
(*     | Username | Passed Tests | Total Tests |                           *)
(*     |----------|--------------|-------------|                           *)
(*     | alice | 5 | 5 |                                                   *)
(***************************************************************************)
MaxRows == 2

alice == <<"a", "l", "i", "c", "e">>
bob == <<"b", "o", "b">>
numeric == <<"4", "2">>

UserNames == {alice, bob, <<>>, kwPlaceholder, numeric}

\* <<passed, total>>
Counts == {<<5, 5>>, <<3, 5>>, <<0, 0>>, <<10, 10>>}

DataRows ==
    [kind : {"data"}, user : UserNames, count : Counts, fmt : {"plain", "loose"}]

OtherRows ==
    [kind : {"header", "separator", "heading", "blank", "short", "nonnum"},
     user : {alice}, count : {<<5, 5>>}, fmt : {"plain"}]

Rows == DataRows \cup OtherRows

HeaderLine ==
    <<"|", " ", "U", "s", "e", "r", "n", "a", "m", "e", " ", "|", " ", "P", "a",
      "s", "s", "e", "d", " ", "T", "e", "s", "t", "s", " ", "|", " ", "T", "o",
      "t", "a", "l", " ", "T", "e", "s", "t", "s", " ", "|">>

SeparatorLine ==
    <<"|", "-", "-", "-", "-", "-", "-", "-", "-", "-", "-", "|", "-", "-", "-",
      "-", "-", "-", "-", "-", "-", "-", "-", "-", "-", "-", "|", "-", "-", "-",
      "-", "-", "-", "-", "-", "-", "-", "-", "-", "-", "|">>

HeadingLine == <<"#", " ", "S", "c", "o", "r", "e", "b", "o", "a", "r", "d">>

\* the text of one table row
RowLine(r) ==
    LET u == r.user
        p == StrOfNat(r.count[1])
        t == StrOfNat(r.count[2])
    IN  CASE r.kind = "header" -> HeaderLine
          [] r.kind = "separator" -> SeparatorLine
          [] r.kind = "heading" -> HeadingLine
          [] r.kind = "blank" -> <<>>
          \* a row cut after the passed column
          [] r.kind = "short" -> <<"|", " ">> \o u \o <<" ", "|", " ">> \o p
          \* a row whose passed column holds no digit
          [] r.kind = "nonnum" ->
                <<"|", " ">> \o u \o <<" ", "|", " ", "n", "/", "a", " ", "|", " ">>
                    \o t \o <<" ", "|">>
          [] r.kind = "data" /\ r.fmt = "plain" ->
                <<"|", " ">> \o u \o <<" ", "|", " ">> \o p \o <<" ", "|", " ">>
                    \o t \o <<" ", "|">>
          \* a plain row without the closing pipe
          [] r.kind = "data" /\ r.fmt = "open" ->
                <<"|", " ">> \o u \o <<" ", "|", " ">> \o p \o <<" ", "|", " ">> \o t
          \* a plain row with trailing text in the count columns
          [] r.kind = "data" /\ r.fmt = "tests" ->
                <<"|", " ">> \o u \o <<" ", "|", " ">> \o p
                    \o <<" ", "t", "e", "s", "t", "s", " ", "|", " ">>
                    \o t \o <<" ", "t", "e", "s", "t", "s", " ", "|">>
          \* no padding, trailing text in the count columns, no closing pipe
          [] r.kind = "data" /\ r.fmt = "loose" ->
                <<"|">> \o u \o <<"|">> \o p \o <<" ", "t", "e", "s", "t", "s", "|">>
                    \o t \o <<" ", "t", "e", "s", "t", "s">>

\* the content of a file holding the rows rs, one per line
FileOf(rs) == Join([i \in 1..Len(rs) |-> RowLine(rs[i])], <<NL>>)

RowSeqs == UNION {[1..n -> Rows] : n \in 0..MaxRows}

\* "| alice | 5 | 5 |\n| bob | 3 | 5 |"
ExampleContent ==
    <<"|", " ", "a", "l", "i", "c", "e", " ", "|", " ", "5", " ", "|", " ", "5",
      " ", "|", NL, "|", " ", "b", "o", "b", " ", "|", " ", "3", " ", "|", " ",
      "5", " ", "|">>

PInit ==
    /\ rows \in RowSeqs
    /\ file \in (IF rows = <<>> THEN {NoFile, FileWith(<<>>)} ELSE {FileWith(FileOf(rows))})
    /\ ppc = "init"
    /\ users = {}

ParseMain ==
    /\ ppc = "init"
    /\ users' = parse_scoreboard_file(file)
    /\ ppc' = "main"
    /\ UNCHANGED <<rows, file, gvars, svars, wvars, tvars, cvars, evars, rvars, xvars, bvars>>

ParsePackage ==
    /\ ppc = "init"
    /\ users' = parse_package_scoreboard_file(file)
    /\ ppc' = "package"
    /\ UNCHANGED <<rows, file, gvars, svars, wvars, tvars, cvars, evars, rvars, xvars, bvars>>

ParseInit == PInit /\ GIdle /\ SIdle /\ WIdle /\ TIdle /\ CIdle /\ EIdle /\ RIdle /\ XIdle /\ BIdle

ParseNext == ParseMain \/ ParsePackage

SpecParse == ParseInit /\ [][ParseNext]_vars

(***************************************************************************)
(* Claims about the parser.                                                *)
(***************************************************************************)
Parsed == ppc \in {"main", "package"}

\* a row of the table that records a completion: a real username,
\* passed = total and total > 0
IsCompletionRow(r) ==
    /\ r.kind = "data"
    /\ r.user # <<>> /\ r.user # kwPlaceholder /\ ~IsDigitStr(r.user)
    /\ r.count[1] = r.count[2] /\ r.count[2] > 0

\* C1: every table row with passed = total and total > 0 puts its username in
\* the set returned by parse_scoreboard_file / parse_package_scoreboard_file
\* (a set: once, however many rows repeat it), and the content
\* "| alice | 5 | 5 |\n| bob | 3 | 5 |" gives exactly {alice}.
C1_CompletionRowsCounted ==
    Parsed =>
        /\ \A i \in 1..Len(rows) : IsCompletionRow(rows[i]) => rows[i].user \in users
        /\ file = FileWith(ExampleContent) => users = {alice}

\* two rows repeat a completed user, and the parser has returned
C1_Witness ==
    /\ Parsed
    /\ Len(rows) = 2 /\ rows[1].user = rows[2].user
    /\ IsCompletionRow(rows[1]) /\ IsCompletionRow(rows[2])
    /\ users = {rows[1].user}

\* C2: a username is in the returned set only if some row has that username
\* with passed = total and total > 0; rows with passed # total, total = 0, or
\* an empty, placeholder or numeric username add nothing.
C2_OnlyCompletionRowsCounted ==
    Parsed =>
        users \subseteq {rows[i].user : i \in {j \in 1..Len(rows) : IsCompletionRow(rows[j])}}

\* a file with a failed row, a zero-total row or a bad username next to a
\* completion: only the completion is returned
C2_Witness ==
    /\ Parsed
    /\ Len(rows) = 2
    /\ IsCompletionRow(rows[1])
    /\ rows[2].kind = "data" /\ ~IsCompletionRow(rows[2])
    /\ users = {rows[1].user}

\* C13: both parsers return the empty set when the scoreboard file does not
\* exist (the FileNotFoundError of open() is caught inside the parser).
C13_MissingFileGivesEmptySet ==
    (Parsed /\ ~file.exists) => users = {}

\* a parser has returned for a file that is not there
C13_Witness == ppc = "package" /\ file = NoFile /\ rows = <<>> /\ users = {}

\* a row with fewer than 4 pipe-separated fields, or with a count column
\* that holds no digit
IsMalformedRow(r) == r.kind \in {"short", "nonnum"}

WellFormed(r) == ~IsMalformedRow(r)

\* the file written from the rows that are not malformed
WithoutMalformedRows ==
    LET kept == SelectSeq(rows, WellFormed)
    IN  IF kept = <<>> THEN FileWith(<<>>) ELSE FileWith(FileOf(kept))

\* C14: a malformed row is skipped and does not end the scan: the parser
\* returns for the file what it returns for the file without its malformed
\* rows, wherever these are.
C14_MalformedRowsSkipped ==
    (Parsed /\ file.exists) =>
        users = IF ppc = "main" THEN parse_scoreboard_file(WithoutMalformedRows)
                ELSE parse_package_scoreboard_file(WithoutMalformedRows)

\* a completion listed after a row whose passed column has no digit
C14_Witness ==
    /\ ppc = "main"
    /\ Len(rows) = 2 /\ rows[1].kind = "nonnum" /\ IsCompletionRow(rows[2])
    /\ users = {rows[2].user}

(***************************************************************************)
(* Ordering of strings and of ranking keys.                                *)
(***************************************************************************)
UpperCase ==
    <<"A", "B", "C", "D", "E", "F", "G", "H", "I", "J", "K", "L", "M", "N", "O",
      "P", "Q", "R", "S", "T", "U", "V", "W", "X", "Y", "Z">>

LowerCase ==
    <<"a", "b", "c", "d", "e", "f", "g", "h", "i", "j", "k", "l", "m", "n", "o",
      "p", "q", "r", "s", "t", "u", "v", "w", "x", "y", "z">>

IndexIn(seq, c) == CHOOSE i \in 1..Len(seq) : seq[i] = c

\* ord(c) for the characters of user and directory names
Ord(c) ==
    CASE c = "-" -> 45
      [] c \in Digit -> 48 + DigitVal(c)
      [] c \in {UpperCase[i] : i \in 1..26} -> 64 + IndexIn(UpperCase, c)
      [] c = "_" -> 95
      [] c \in {LowerCase[i] : i \in 1..26} -> 96 + IndexIn(LowerCase, c)

\* a < b for Python strings: lexicographic by code point
RECURSIVE StrLess(_, _)
StrLess(a, b) ==
    IF b = <<>> THEN FALSE
    ELSE IF a = <<>> THEN TRUE
    ELSE IF Head(a) # Head(b) THEN Ord(Head(a)) < Ord(Head(b))
    ELSE StrLess(Tail(a), Tail(b))

\* as if the ranking were sorted by ascending count
KeyLess_Ascending(c1, u1, c2, u2) == c1 < c2 \/ (c1 = c2 /\ StrLess(u1, u2))

\* (-c1, u1) < (-c2, u2): the sort key of lines 131-132 (main) and 162-163,
\* 184-185 (package)
KeyLess(c1, u1, c2, u2) == (0 - c1) < (0 - c2) \/ ((0 - c1) = (0 - c2) /\ StrLess(u1, u2))

\* sorted(items, key = lambda x: (-count(x), x)) over the users of count
RECURSIVE SortedBy(_, _)
SortedBy(us, count) ==
    IF us = {} THEN <<>>
    ELSE LET first == CHOOSE u \in us :
                 \A v \in us \ {u} : KeyLess(count[u], u, count[v], v)
         IN  <<first>> \o SortedBy(us \ {first}, count)

\* sorted(names) for a set of strings
RECURSIVE SortedNames(_)
SortedNames(ns) ==
    IF ns = {} THEN <<>>
    ELSE LET first == CHOOSE n \in ns : \A m \in ns \ {n} : StrLess(n, m)
         IN  <<first>> \o SortedNames(ns \ {first})

(***************************************************************************)
(* generate_main_scoreboard: the scan of the challenge-* directories and   *)
(* the ranking.  The SCOREBOARD.md of a directory is read when the scan     *)
(* reaches it.  Titles (get_challenge_title) play no part in the counts    *)
(* and are left out of the challenge entries.                              *)
(***************************************************************************)
MaxChallenges == 3

zed == <<"Z", "e", "d">>

Row(u, c) == [kind |-> "data", user |-> u, count |-> c, fmt |-> "plain"]

HeaderRows ==
    <<[kind |-> "header", user |-> alice, count |-> <<5, 5>>, fmt |-> "plain"],
      [kind |-> "separator", user |-> alice, count |-> <<5, 5>>, fmt |-> "plain"]>>

\* the SCOREBOARD.md files a challenge directory may hold
Boards ==
    {NoFile,
     FileWith(FileOf(HeaderRows)),
     FileWith(FileOf(HeaderRows \o <<Row(alice, <<5, 5>>)>>)),
     FileWith(FileOf(HeaderRows \o <<Row(alice, <<5, 5>>), Row(bob, <<5, 5>>)>>)),
     FileWith(FileOf(HeaderRows \o <<Row(bob, <<5, 5>>), Row(bob, <<10, 10>>)>>)),
     FileWith(FileOf(HeaderRows \o <<Row(zed, <<5, 5>>), Row(bob, <<3, 5>>)>>)),
     FileWith(FileOf(HeaderRows \o <<Row(bob, <<5, 5>>), Row(zed, <<5, 5>>)>>))}

\* user_completions after lines 123-128 for the users of challenge num
CreditMain(uc, us, num) ==
    [u \in (DOMAIN uc) \cup us |->
        LET old == IF u \in DOMAIN uc THEN uc[u] ELSE [count |-> 0, challenges |-> <<>>]
        IN  IF u \in us
            THEN [count |-> old.count + 1, challenges |-> Append(old.challenges, num)]
            ELSE old]

\* user -> count
CountOf(uc) == [u \in DOMAIN uc |-> uc[u].count]

MainInit ==
    /\ script = "main" /\ gpc = "scan"
    /\ challenge_dirs \in {[i \in 1..n |-> i] : n \in 0..MaxChallenges}
    /\ package_dirs = <<>> /\ pkg_challenges = <<>>
    /\ pos = <<0, 1>> /\ board = NoFile /\ pending = {}
    /\ user_completions = <<>> /\ package_completions = <<>>
    /\ overall_completions = <<>>
    /\ sorted_users = <<>> /\ sorted_overall = <<>> /\ sorted_package_users = <<>>

\* lines 113-128: one iteration of the loop over challenge_dirs
MainProcessChallenge ==
    /\ script = "main" /\ gpc = "scan"
    /\ pos[2] <= Len(challenge_dirs)
    /\ \E b \in Boards :
        /\ board' = b
        /\ user_completions' =
              IF b.exists
              THEN CreditMain(user_completions, parse_scoreboard_file(b),
                              challenge_dirs[pos[2]])
              ELSE user_completions
    /\ pos' = <<0, pos[2] + 1>>
    /\ UNCHANGED <<script, gpc, challenge_dirs, package_dirs, pkg_challenges, pending,
                   package_completions, overall_completions, sorted_users,
                   sorted_overall, sorted_package_users, pvars, svars, wvars, tvars, cvars, evars, rvars, xvars, bvars>>

\* lines 130-132
MainSort ==
    /\ script = "main" /\ gpc = "scan"
    /\ pos[2] > Len(challenge_dirs)
    /\ sorted_users' = SortedBy(DOMAIN user_completions, CountOf(user_completions))
    /\ gpc' = "done"
    /\ UNCHANGED <<script, challenge_dirs, package_dirs, pkg_challenges, pos, board,
                   pending, user_completions, package_completions,
                   overall_completions, sorted_overall, sorted_package_users, pvars, svars, wvars, tvars, cvars, evars, rvars, xvars, bvars>>

(***************************************************************************)
(* generate_package_scoreboard: the scan of packages/*/challenge-* and the *)
(* rankings.  The per-package entries keep the count; the list of          *)
(* challenge ids and titles beside it is only appended to and never read.  *)
(***************************************************************************)
MaxPkgChallenges == 2

cobra == <<"c", "o", "b", "r", "a">>
gin == <<"g", "i", "n">>

PackageNames == {cobra, gin}

\* the package whose challenges are scanned
CurrentPackage == package_dirs[pos[1]]

\* package_completions after lines 143-147 for one user
CreditPackage(pc, pkg, u) ==
    [p \in (DOMAIN pc) \cup {pkg} |->
        LET old == IF p \in DOMAIN pc THEN pc[p] ELSE <<>>
        IN  IF p = pkg
            THEN [v \in (DOMAIN old) \cup {u} |->
                    LET c == IF v \in DOMAIN old THEN old[v] ELSE 0
                    IN  IF v = u THEN c + 1 ELSE c]
            ELSE old]

\* as if a user were counted once per package
CreditOverall_OncePerPackage(oc, pkg, u) ==
    [v \in (DOMAIN oc) \cup {u} |->
        LET old == IF v \in DOMAIN oc THEN oc[v] ELSE [count |-> 0, packages |-> {}]
        IN  IF v = u
            THEN [count |-> IF pkg \in old.packages THEN old.count ELSE old.count + 1,
                  packages |-> old.packages \cup {pkg}]
            ELSE old]

\* overall_completions after lines 148-149 for one user
CreditOverall(oc, pkg, u) ==
    [v \in (DOMAIN oc) \cup {u} |->
        LET old == IF v \in DOMAIN oc THEN oc[v] ELSE [count |-> 0, packages |-> {}]
        IN  IF v = u
            THEN [count |-> old.count + 1, packages |-> old.packages \cup {pkg}]
            ELSE old]

PkgInit ==
    /\ script = "package" /\ gpc = "scan"
    /\ challenge_dirs = <<>>
    /\ \E ps \in SUBSET PackageNames :
        /\ package_dirs = SortedNames(ps)
        /\ pkg_challenges \in [ps -> 0..MaxPkgChallenges]
    /\ pos = <<1, 1>> /\ board = NoFile /\ pending = {}
    /\ user_completions = <<>> /\ package_completions = <<>>
    /\ overall_completions = <<>>
    /\ sorted_users = <<>> /\ sorted_overall = <<>> /\ sorted_package_users = <<>>

\* lines 132-140: one iteration of the loop over the challenge directories of a
\* package, up to the loop over its users
PkgProcessChallenge ==
    /\ script = "package" /\ gpc = "scan"
    /\ pos[1] <= Len(package_dirs)
    /\ pos[2] <= pkg_challenges[CurrentPackage]
    /\ \E b \in Boards :
        /\ board' = b
        /\ pending' = IF b.exists THEN parse_package_scoreboard_file(b) ELSE {}
    /\ gpc' = IF pending' = {} THEN "scan" ELSE "credit"
    /\ pos' = <<pos[1], pos[2] + 1>>
    /\ UNCHANGED <<script, challenge_dirs, package_dirs, pkg_challenges,
                   user_completions, package_completions, overall_completions,
                   sorted_users, sorted_overall, sorted_package_users, pvars, svars, wvars, tvars, cvars, evars, rvars, xvars, bvars>>

\* lines 142-149: one iteration of the loop over the users of a challenge (a
\* set: in any order)
PkgCreditUser ==
    /\ script = "package" /\ gpc = "credit"
    /\ \E u \in pending :
        /\ package_completions' = CreditPackage(package_completions, CurrentPackage, u)
        /\ overall_completions' = CreditOverall(overall_completions, CurrentPackage, u)
        /\ pending' = pending \ {u}
    /\ gpc' = IF pending' = {} THEN "scan" ELSE "credit"
    /\ UNCHANGED <<script, challenge_dirs, package_dirs, pkg_challenges, pos, board,
                   user_completions, sorted_users, sorted_overall,
                   sorted_package_users, pvars, svars, wvars, tvars, cvars, evars, rvars, xvars, bvars>>

\* line 124: the next package directory
PkgNextPackage ==
    /\ script = "package" /\ gpc = "scan"
    /\ pos[1] <= Len(package_dirs)
    /\ pos[2] > pkg_challenges[CurrentPackage]
    /\ pos' = <<pos[1] + 1, 1>>
    /\ UNCHANGED <<script, gpc, challenge_dirs, package_dirs, pkg_challenges, board,
                   pending, user_completions, package_completions,
                   overall_completions, sorted_users, sorted_overall,
                   sorted_package_users, pvars, svars, wvars, tvars, cvars, evars, rvars, xvars, bvars>>

\* lines 162-163 and 182-185
PkgSort ==
    /\ script = "package" /\ gpc = "scan"
    /\ pos[1] > Len(package_dirs)
    /\ sorted_overall' =
          SortedBy(DOMAIN overall_completions, CountOf(overall_completions))
    /\ sorted_package_users' =
          [p \in DOMAIN package_completions |->
              SortedBy(DOMAIN package_completions[p], package_completions[p])]
    /\ gpc' = "done"
    /\ UNCHANGED <<script, challenge_dirs, package_dirs, pkg_challenges, pos, board,
                   pending, user_completions, package_completions,
                   overall_completions, sorted_users, pvars, svars, wvars, tvars, cvars, evars, rvars, xvars, bvars>>

RankInit == (MainInit \/ PkgInit) /\ PIdle /\ SIdle /\ WIdle /\ TIdle /\ CIdle /\ EIdle /\ RIdle /\ XIdle /\ BIdle

RankNext ==
    \/ MainProcessChallenge
    \/ MainSort
    \/ PkgProcessChallenge
    \/ PkgCreditUser
    \/ PkgNextPackage
    \/ PkgSort

SpecRank == RankInit /\ [][RankNext]_vars

(***************************************************************************)
(* Claims about the ranking.                                               *)
(***************************************************************************)
\* the position of user u in the ranking seq
Position(seq, u) == CHOOSE i \in 1..Len(seq) : seq[i] = u

\* seq lists exactly the users of count, each once
ListsAll(seq, count) ==
    /\ {seq[i] : i \in 1..Len(seq)} = DOMAIN count
    /\ Len(seq) = Cardinality(DOMAIN count)

\* A is listed before B iff count(A) > count(B), or the counts are equal and
\* username(A) < username(B)
RankedBy(seq, count) ==
    /\ ListsAll(seq, count)
    /\ \A a, b \in DOMAIN count :
          (Position(seq, a) < Position(seq, b))
              <=> \/ count[a] > count[b]
                  \/ count[a] = count[b] /\ StrLess(a, b)

\* C3: the ranking of generate_main_scoreboard and the overall and per-package
\* rankings of generate_package_scoreboard list user A before user B iff
\* count(A) > count(B), or count(A) = count(B) and username(A) < username(B).
C3_RankingOrder ==
    gpc = "done" =>
        /\ script = "main" => RankedBy(sorted_users, CountOf(user_completions))
        /\ script = "package" =>
            /\ RankedBy(sorted_overall, CountOf(overall_completions))
            /\ DOMAIN sorted_package_users = DOMAIN package_completions
            /\ \A p \in DOMAIN package_completions :
                  RankedBy(sorted_package_users[p], package_completions[p])

\* a main ranking of three users with a tie in the counts that the usernames
\* break, below a user with a higher count
C3_Witness ==
    /\ gpc = "done" /\ script = "main"
    /\ Len(sorted_users) = 3
    /\ user_completions[sorted_users[1]].count > user_completions[sorted_users[2]].count
    /\ user_completions[sorted_users[2]].count = user_completions[sorted_users[3]].count

(***************************************************************************)
(* README.md and the splice of the generated sections into it.             *)
(* README.md is a sequence of tokens: the marker strings the scripts and   *)
(* the test look for (emoji written as :name:), the newline, and other     *)
(* text.  str.find on the text is the search of a token in the sequence.   *)
(***************************************************************************)
MaxReadme == 3
MaxRuns == 2

\* start_marker and end_marker of generate_main_scoreboard.py, lines 483-484,
\* with the emoji as that file spells it
TOP == "## :trophy(main): **Top 10 Leaderboard**"
KEY_FEATURES == "## :star2(main): Key Features"
\* the classic heading test_scoreboards.py looks for, line 56: not in bold
TOP_PLAIN == "## :trophy: Top 10 Leaderboard"
KEY_FEATURES_PLAIN == "## Key Features"
GETTING_STARTED == "## Getting Started"
CHALLENGE_CATEGORIES == "## Challenge Categories"
END_CLASSIC == "<!-- END_CLASSIC_LEADERBOARD -->"
PKG == "## :rocket: Package Challenges Leaderboard"
END_PKG == "<!-- END_PACKAGE_LEADERBOARD -->"
TEXT == "text"
CLASSIC_BODY == "classic leaderboard table and summary"
PACKAGE_BODY == "package leaderboard tables and statistics"

ReadmeTokens ==
    {TOP, TOP_PLAIN, KEY_FEATURES, KEY_FEATURES_PLAIN, GETTING_STARTED,
     CHALLENGE_CATEGORIES, END_CLASSIC, PKG, END_PKG, NL, TEXT}

Readmes == UNION {[1..n -> ReadmeTokens] : n \in 0..MaxReadme}

\* content.find(tok, start): the first index >= start (0-based), or -1
Find(content, tok, start) ==
    IF \E i \in (start + 1)..Len(content) : content[i] = tok
    THEN (CHOOSE i \in (start + 1)..Len(content) :
              content[i] = tok /\ \A j \in (start + 1)..(i - 1) : content[j] # tok) - 1
    ELSE 0 - 1

\* tok in content
Has(content, tok) == \E i \in 1..Len(content) : content[i] = tok

\* generate_main_scoreboard(), lines 135-171: the heading, then the lines of
\* the table and of the summary, joined by newlines; the last line is empty
MainContent == <<TOP, NL, CLASSIC_BODY, NL>>

\* generate_package_scoreboard(), lines 152-236; "" when there is no packages
\* directory (lines 115-117)
PackageContents == {<<>>, <<PKG, NL, PACKAGE_BODY, NL, END_PKG, NL>>}

\* update_readme_with_scoreboard, lines 470-515: [ok, content] for a README
\* that exists
MainSplice(content, scoreboard_content) ==
    LET start_pos == Find(content, TOP, 0)
        end_pos == Find(content, KEY_FEATURES, 0)
        key_features_pos == Find(content, KEY_FEATURES, 0)
    IN  IF start_pos = 0 - 1 \/ end_pos = 0 - 1
        THEN IF key_features_pos = 0 - 1
             THEN [ok |-> FALSE, content |-> content]
             ELSE [ok |-> TRUE,
                   content |-> Upto(content, key_features_pos) \o scoreboard_content
                                   \o <<NL>> \o From(content, key_features_pos)]
        ELSE [ok |-> TRUE,
              content |-> Upto(content, start_pos) \o scoreboard_content \o <<NL>>
                              \o From(content, end_pos)]

\* as if the section ended at the nearest of the headers
NextSection_Nearest(content, patterns, from) ==
    LET found == {Find(content, patterns[i], from) : i \in 1..Len(patterns)} \ {0 - 1}
    IN  IF found = {} THEN Len(content)
        ELSE CHOOSE n \in found : \A k \in found : n <= k

\* lines 372-383: the end of the section when the end marker is missing
RECURSIVE NextSection(_, _, _)
NextSection(content, patterns, from) ==
    IF patterns = <<>> THEN Len(content)
    ELSE LET pattern_pos == Find(content, Head(patterns), from)
         IN  IF pattern_pos # 0 - 1 THEN pattern_pos
             ELSE NextSection(content, Tail(patterns), from)

\* update_readme_with_package_scoreboard, lines 324-401.  The start marker is
\* one token: start_pos + len(start_marker) is the next index.
PackageSplice(content, scoreboard_content) ==
    LET start_pos == Find(content, PKG, 0)
        end_pos == Find(content, END_PKG, 0)
        classic_end == Find(content, END_CLASSIC, 0)
        key_features_pos == Find(content, KEY_FEATURES_PLAIN, 0)
    IN  IF start_pos = 0 - 1
        THEN IF classic_end # 0 - 1
             THEN LET insertion_point == Find(content, NL, classic_end) + 1
                  IN  [ok |-> TRUE,
                       content |-> Upto(content, insertion_point) \o scoreboard_content
                                       \o <<NL>> \o From(content, insertion_point)]
             ELSE IF key_features_pos # 0 - 1
             THEN [ok |-> TRUE,
                   content |-> Upto(content, key_features_pos) \o scoreboard_content
                                   \o <<NL>> \o From(content, key_features_pos)]
             ELSE [ok |-> FALSE, content |-> content]
        ELSE LET end2 ==
                     IF end_pos = 0 - 1
                     THEN NextSection(content,
                                      <<KEY_FEATURES_PLAIN, GETTING_STARTED,
                                        CHALLENGE_CATEGORIES>>,
                                      start_pos + 1)
                     ELSE Find(content, NL, end_pos) + 1
             IN  [ok |-> TRUE,
                  content |-> Upto(content, start_pos) \o scoreboard_content
                                  \o From(content, end2)]

\* lines 475-480 and 507-515 (main), 335-340 and 393-401 (package): read
\* README.md, splice, write it back; False when it is missing or has no
\* insertion point, and then nothing is written
update_readme_with_scoreboard(f, scoreboard_content) ==
    IF ~f.exists THEN [ok |-> FALSE, file |-> f]
    ELSE LET r == MainSplice(f.content, scoreboard_content)
         IN  [ok |-> r.ok, file |-> IF r.ok THEN FileWith(r.content) ELSE f]

update_readme_with_package_scoreboard(f, scoreboard_content) ==
    IF ~f.exists THEN [ok |-> FALSE, file |-> f]
    ELSE LET r == PackageSplice(f.content, scoreboard_content)
         IN  [ok |-> r.ok, file |-> IF r.ok THEN FileWith(r.content) ELSE f]

\* as if a failed update still ended the script with 0
ExitCode_Zero(ok) == 0

\* main(), lines 524-529 (main) and 410-415 (package)
ExitCode(ok) == IF ok THEN 0 ELSE 1

SpliceInit ==
    /\ readme \in {NoFile} \cup {FileWith(c) : c \in Readmes}
    /\ before = readme
    /\ main_content = MainContent
    /\ package_content \in PackageContents
    /\ log = <<>>

\* one run of generate_main_scoreboard.py
RunMain ==
    /\ Len(log) < MaxRuns
    /\ LET r == update_readme_with_scoreboard(readme, main_content)
       IN  /\ readme' = r.file
           /\ log' = Append(log, <<"main", ExitCode(r.ok)>>)
    /\ before' = readme
    /\ UNCHANGED <<main_content, package_content, pvars, gvars, wvars, tvars, cvars, evars, rvars, xvars, bvars>>

\* one run of generate_package_scoreboard.py
RunPackage ==
    /\ Len(log) < MaxRuns
    /\ LET r == update_readme_with_package_scoreboard(readme, package_content)
       IN  /\ readme' = r.file
           /\ log' = Append(log, <<"package", ExitCode(r.ok)>>)
    /\ before' = readme
    /\ UNCHANGED <<main_content, package_content, pvars, gvars, wvars, tvars, cvars, evars, rvars, xvars, bvars>>

SpliceNext == RunMain \/ RunPackage

SpliceSpecInit == SpliceInit /\ PIdle /\ GIdle /\ WIdle /\ TIdle /\ CIdle /\ EIdle /\ RIdle /\ XIdle /\ BIdle

SpecSplice == SpliceSpecInit /\ [][SpliceNext]_vars

(***************************************************************************)
(* Claims about the runs of the two scripts on README.md.                  *)
(***************************************************************************)
\* the script and exit code of the last run and of the run before it
LastRun == log[Len(log)]
PrevRun == log[Len(log) - 1]

\* C4: when update_readme_with_scoreboard succeeds on two consecutive runs of
\* the main script, the second run leaves README.md as the first run left it,
\* whatever the initial README.
C4_MainSpliceIdempotent ==
    (Len(log) >= 2 /\ PrevRun = <<"main", 0>> /\ LastRun = <<"main", 0>>)
        => readme = before

\* C5: when update_readme_with_package_scoreboard succeeds on two consecutive
\* runs of the package script, the second run leaves README.md as the first
\* run left it, whatever the initial README (stated here for a repository
\* that has a packages directory).
C5_PackageSpliceIdempotent ==
    (/\ Len(log) >= 2 /\ PrevRun = <<"package", 0>> /\ LastRun = <<"package", 0>>
     /\ package_content # <<>>)
        => readme = before

\* README.md holds neither the start marker of the script nor a marker it
\* can insert at
NoInsertionPoint(scr, f) ==
    f.exists /\
    IF scr = "main"
    THEN ~Has(f.content, TOP) /\ ~Has(f.content, KEY_FEATURES)
    ELSE ~Has(f.content, PKG) /\ ~Has(f.content, END_CLASSIC)
             /\ ~Has(f.content, KEY_FEATURES_PLAIN)

\* C6: a run of either script on a README that holds neither its start marker
\* nor any of its fallback insertion markers exits with status 1 and leaves
\* README.md as it was.
C6_NoInsertionPointFails ==
    (Len(log) >= 1 /\ NoInsertionPoint(LastRun[1], before))
        => LastRun[2] = 1 /\ readme = before

\* both scripts have met a README without their markers: the main script
\* first, then the package script
C6_Witness ==
    /\ Len(log) = 2
    /\ PrevRun = <<"main", 1>> /\ LastRun = <<"package", 1>>
    /\ NoInsertionPoint("main", before) /\ NoInsertionPoint("package", before)
    /\ Len(before.content) = MaxReadme
    /\ readme = before

\* C7: after the main and the package script have both run, in either order,
\* README.md holds the four markers the test looks for, the classic heading
\* before the package heading (stated here for the runs in which both scripts
\* exit with 0 and the repository has a packages directory).
C7_BothSectionsAfterBothScripts ==
    (/\ Len(log) = 2 /\ LastRun[1] # PrevRun[1]
     /\ PrevRun[2] = 0 /\ LastRun[2] = 0
     /\ package_content # <<>>) =>
        /\ Has(readme.content, TOP_PLAIN) /\ Has(readme.content, END_CLASSIC)
        /\ Has(readme.content, PKG) /\ Has(readme.content, END_PKG)
        /\ Find(readme.content, TOP_PLAIN, 0) < Find(readme.content, PKG, 0)

\* the last run is a successful run of the package script on a README
PackageRunSucceeded ==
    Len(log) >= 1 /\ LastRun = <<"package", 0>> /\ before.exists

\* the text after the line that holds position i: after the first newline
\* from i on, nothing when no newline follows
AfterLineOf(content, i) ==
    IF Find(content, NL, i) = 0 - 1 THEN <<>>
    ELSE From(content, Find(content, NL, i) + 1)

\* C17: with the start marker and, after it, the end marker in the README,
\* the package splice replaces the span from the start marker through the end
\* of the line of the end marker: the text before the start marker and the
\* text after that line are kept, once, also when no newline follows the end
\* marker (stated here for a repository that has a packages directory).
C17_PackageSpliceReplacesSection ==
    (/\ PackageRunSucceeded /\ package_content # <<>>
     /\ Has(before.content, PKG) /\ Has(before.content, END_PKG)
     /\ Find(before.content, PKG, 0) < Find(before.content, END_PKG, 0)) =>
        readme.content =
            Upto(before.content, Find(before.content, PKG, 0))
                \o package_content
                \o AfterLineOf(before.content, Find(before.content, END_PKG, 0))

\* the end of the replaced span when the end marker is missing: the first
\* occurrence after position from of the first header that occurs there,
\* tried in the order Key Features, Getting Started, Challenge Categories
SectionEnd(content, from) ==
    IF Find(content, KEY_FEATURES_PLAIN, from) # 0 - 1
    THEN Find(content, KEY_FEATURES_PLAIN, from)
    ELSE IF Find(content, GETTING_STARTED, from) # 0 - 1
    THEN Find(content, GETTING_STARTED, from)
    ELSE IF Find(content, CHALLENGE_CATEGORIES, from) # 0 - 1
    THEN Find(content, CHALLENGE_CATEGORIES, from)
    ELSE Len(content)

\* C18: with the start marker but no end marker in the README, the replaced
\* span ends at the header found first in the priority order, at its first
\* occurrence after the start marker, or at the end of the document; the
\* text from there on is unchanged.
C18_PackageSpliceWithoutEndMarker ==
    (/\ PackageRunSucceeded
     /\ Has(before.content, PKG) /\ ~Has(before.content, END_PKG)) =>
        readme.content =
            Upto(before.content, Find(before.content, PKG, 0))
                \o package_content
                \o From(before.content,
                        SectionEnd(before.content, Find(before.content, PKG, 0) + 1))

\* Getting Started comes first in the text, Key Features first in the order:
\* the old section is cut at Key Features
C18_Witness ==
    /\ PackageRunSucceeded
    /\ before.content = <<PKG, GETTING_STARTED, KEY_FEATURES_PLAIN>>
    /\ package_content # <<>>
    /\ readme.content = package_content \o <<KEY_FEATURES_PLAIN>>

\* where the section goes when the start marker is missing: after the line
\* of the END_CLASSIC marker (the end of the text when no newline follows),
\* else before the Key Features header
InsertionPoint(content) ==
    IF Has(content, END_CLASSIC)
    THEN IF Find(content, NL, Find(content, END_CLASSIC, 0)) = 0 - 1
         THEN Len(content)
         ELSE Find(content, NL, Find(content, END_CLASSIC, 0)) + 1
    ELSE Find(content, KEY_FEATURES_PLAIN, 0)

\* C19: without the start marker in the README, the package splice inserts
\* the new content (and a newline) right after the line of the END_CLASSIC
\* marker, also when no newline follows it, else right before the Key
\* Features header; the text before and after is unchanged.
C19_PackageSpliceInsertion ==
    (PackageRunSucceeded /\ ~Has(before.content, PKG)) =>
        readme.content =
            Upto(before.content, InsertionPoint(before.content))
                \o package_content \o <<NL>>
                \o From(before.content, InsertionPoint(before.content))

(***************************************************************************)
(* update_all_scoreboards.py: the three sub-scripts are run one after the  *)
(* other, each as a subprocess; a sub-script either cannot be launched     *)
(* (subprocess.run raises) or ends with a return code.                     *)
(***************************************************************************)
\* lines 51-55
scripts ==
    <<"generate_main_scoreboard.py", "generate_package_scoreboard.py",
      "generate_contributor_badges.py">>

\* the return codes a sub-script is run with here: 0, the 1 of sys.exit(1),
\* and 2 for any other failure of the interpreter
ReturnCodes == {0, 1, 2}

\* what subprocess.run can do: raise, or return a result with a return code
Outcomes ==
    [launched : {TRUE}, returncode : ReturnCodes]
        \cup {[launched |-> FALSE, returncode |-> 0 - 1]}

\* as if a sub-script that could not be launched counted as a success
run_script_LaunchErrorIgnored(outcome) ==
    IF outcome.launched THEN outcome.returncode = 0 ELSE TRUE

\* run_script, lines 13-37
run_script(outcome) ==
    IF outcome.launched THEN outcome.returncode = 0 ELSE FALSE

WrapperInit ==
    /\ wpc = "loop"
    /\ outcomes = <<>>
    /\ success_count = 0
    /\ exit_status = 0 - 1

\* main, lines 60-62: one turn of the for loop
WrapperRunScript ==
    /\ wpc = "loop"
    /\ Len(outcomes) < Len(scripts)
    /\ \E o \in Outcomes :
           /\ outcomes' = Append(outcomes, [script |-> scripts[Len(outcomes) + 1],
                                            launched |-> o.launched,
                                            returncode |-> o.returncode])
           /\ success_count' = IF run_script(o) THEN success_count + 1
                                                ELSE success_count
    /\ UNCHANGED <<wpc, exit_status, pvars, gvars, svars, tvars, cvars, evars, rvars, xvars, bvars>>

\* as if the loop were left at the first sub-script that fails
WrapperReturn_AtFirstFailure ==
    /\ wpc = "loop"
    /\ \/ Len(outcomes) = Len(scripts)
       \/ outcomes # <<>> /\ ~run_script(outcomes[Len(outcomes)])
    /\ exit_status' = IF success_count = Len(scripts) THEN 0 ELSE 1
    /\ wpc' = "done"
    /\ UNCHANGED <<outcomes, success_count, pvars, gvars, svars, tvars, cvars, evars, rvars, xvars, bvars>>

\* main, lines 64-81: the summary and the value returned
WrapperReturn ==
    /\ wpc = "loop"
    /\ Len(outcomes) = Len(scripts)
    /\ exit_status' = IF success_count = Len(scripts) THEN 0 ELSE 1
    /\ wpc' = "done"
    /\ UNCHANGED <<outcomes, success_count, pvars, gvars, svars, tvars, cvars, evars, rvars, xvars, bvars>>

WrapperNext == WrapperRunScript \/ WrapperReturn

WrapperSpecInit == WrapperInit /\ PIdle /\ GIdle /\ SIdle /\ TIdle /\ CIdle /\ EIdle /\ RIdle /\ XIdle /\ BIdle

SpecWrapper == WrapperSpecInit /\ [][WrapperNext]_vars

\* main is sequential code and every sub-script is awaited by subprocess.run:
\* a step that can be taken is taken
SpecWrapperFair == SpecWrapper /\ WF_vars(WrapperNext)

(***************************************************************************)
(* Claims about update_all_scoreboards.py.                                 *)
(***************************************************************************)
ExitedZero(o) == o.launched /\ o.returncode = 0

\* C8: update_all_scoreboards.main returns 0 if and only if each of the three
\* sub-scripts ended with return code 0; otherwise (a sub-script ended with
\* another code or could not be launched) it returns 1.
C8_WrapperExitCode ==
    wpc = "done" =>
        /\ Len(outcomes) = 3
        /\ exit_status \in {0, 1}
        /\ exit_status = 0 <=> \A i \in 1..3 : ExitedZero(outcomes[i])

\* main has returned 1 after a run in which the only failure was a sub-script
\* that could not be launched
C8_Witness ==
    /\ wpc = "done" /\ exit_status = 1
    /\ ExitedZero(outcomes[1]) /\ ~outcomes[2].launched /\ ExitedZero(outcomes[3])

\* C20: main runs each of the three sub-scripts once, in the order main
\* scoreboard, package scoreboard, contributor badges, whatever the earlier
\* ones did: every run of main comes to its end with exactly these three runs
\* behind it.
C20_AllScriptsRunInOrder ==
    <>(/\ wpc = "done"
       /\ Len(outcomes) = 3
       /\ outcomes[1].script = "generate_main_scoreboard.py"
       /\ outcomes[2].script = "generate_package_scoreboard.py"
       /\ outcomes[3].script = "generate_contributor_badges.py")

\* the first sub-script failed, the second could not be launched, and the
\* third was still run
C20_Witness ==
    /\ wpc = "done" /\ Len(outcomes) = 3
    /\ outcomes[1].script = "generate_main_scoreboard.py" /\ outcomes[1].returncode = 1
    /\ ~outcomes[2].launched
    /\ outcomes[3].script = "generate_contributor_badges.py" /\ ExitedZero(outcomes[3])

(***************************************************************************)
(* Achievement tier and completion rate of a contributor, in the classic   *)
(* leaderboard (generate_main_scoreboard.py) and in the badge generator    *)
(* (generate_contributor_badges.py).  count / total * 100 is a float in    *)
(* the code; its comparisons with the thresholds and its rounding to one   *)
(* decimal are computed here on the exact quotient, rounding halves to     *)
(* even, which gives what the float computation gives for every total      *)
(* below 80.                                                               *)
(***************************************************************************)
MaxTotal == 40

\* as if the top tier needed more than 20 completions
ClassicAchievement_Strict(count) ==
    IF count > 20 THEN "Master"
    ELSE IF count >= 15 THEN "Expert"
    ELSE IF count >= 10 THEN "Advanced"
    ELSE IF count >= 5 THEN "Intermediate"
    ELSE "Beginner"

\* generate_html_leaderboard, lines 377-392
ClassicAchievement(count) ==
    IF count >= 20 THEN "Master"
    ELSE IF count >= 15 THEN "Expert"
    ELSE IF count >= 10 THEN "Advanced"
    ELSE IF count >= 5 THEN "Intermediate"
    ELSE "Beginner"

\* generate_contributor_badges.py, lines 24-29
achievement_levels ==
    [Beginner |-> [min_challenges |-> 1, min_rate |-> 0],
     Advanced |-> [min_challenges |-> 10, min_rate |-> 30],
     Expert |-> [min_challenges |-> 15, min_rate |-> 50],
     Master |-> [min_challenges |-> 20, min_rate |-> 65]]

\* as if the thresholds were met by the rate of the unsolved challenges
RateAtLeast_Unsolved(solved, total, min_rate) ==
    IF total > 0 THEN 100 * (total - solved) >= min_rate * total ELSE 0 >= min_rate

\* as if the rate thresholds were not tested
RateAtLeast_Ignored(solved, total, min_rate) == TRUE

\* line 33 and line 37: completion_rate >= min_rate, where completion_rate
\* is solved / total * 100, or 0 when there is no challenge
RateAtLeast(solved, total, min_rate) ==
    IF total > 0 THEN 100 * solved >= min_rate * total ELSE 0 >= min_rate

\* lines 35-40: the first level of the list whose two thresholds are met
RECURSIVE FirstLevel(_, _, _)
FirstLevel(levels, solved, total) ==
    IF levels = <<>> THEN "Beginner"
    ELSE LET level == achievement_levels[Head(levels)]
         IN  IF /\ solved >= level.min_challenges
                /\ RateAtLeast(solved, total, level.min_rate)
             THEN Head(levels)
             ELSE FirstLevel(Tail(levels), solved, total)

\* get_achievement_level, lines 31-42
get_achievement_level(solved, total) ==
    FirstLevel(<<"Master", "Expert", "Advanced", "Beginner">>, solved, total)

\* as if the rate were cut after the first decimal
Tenths_Truncated(solved, total) == (1000 * solved) \div total

\* solved / total * 100 rounded to one decimal, in tenths of a percent
Tenths(solved, total) ==
    LET q == (1000 * solved) \div total
        r == (1000 * solved) % total
    IN  IF 2 * r > total \/ (2 * r = total /\ q % 2 = 1) THEN q + 1 ELSE q

\* a number of tenths written with one decimal
OneDecimal(t) == StrOfNat(t \div 10) \o <<".">> \o StrOfNat(t % 10)

\* generate_html_leaderboard, line 375
ClassicRate(count, total) == OneDecimal(Tenths(count, total)) \o <<"%">>

\* generate_contributor_badges.py, lines 172 and 242 (also 276/333, 366/415):
\* round(..., 1), or the integer 0 when there is no challenge, then "%"
BadgeRate(solved, total) ==
    IF total > 0 THEN OneDecimal(Tenths(solved, total)) \o <<"%">>
    ELSE <<"0", "%">>

TierInit ==
    /\ tpc = "init"
    /\ total_challenges \in 0..MaxTotal
    /\ challenges_solved \in 0..total_challenges
    /\ achievement = ""
    /\ completion_rate = <<>>

\* generate_html_leaderboard, lines 373-392: the row of a user of the top ten,
\* who has at least one completion
ClassicLeaderboardRow ==
    /\ tpc = "init"
    /\ challenges_solved >= 1
    /\ completion_rate' = ClassicRate(challenges_solved, total_challenges)
    /\ achievement' = ClassicAchievement(challenges_solved)
    /\ tpc' = "classic"
    /\ UNCHANGED <<challenges_solved, total_challenges, pvars, gvars, svars, wvars, cvars, evars, rvars, xvars, bvars>>

\* generate_dynamic_svg_badge, lines 171-172 (the other badges likewise)
BadgeLevel ==
    /\ tpc = "init"
    /\ achievement' = get_achievement_level(challenges_solved, total_challenges)
    /\ completion_rate' = BadgeRate(challenges_solved, total_challenges)
    /\ tpc' = "badge"
    /\ UNCHANGED <<challenges_solved, total_challenges, pvars, gvars, svars, wvars, cvars, evars, rvars, xvars, bvars>>

TierNext == ClassicLeaderboardRow \/ BadgeLevel

TierSpecInit == TierInit /\ PIdle /\ GIdle /\ SIdle /\ WIdle /\ CIdle /\ EIdle /\ RIdle /\ XIdle /\ BIdle

SpecTier == TierSpecInit /\ [][TierNext]_vars

(***************************************************************************)
(* Claims about tiers and rates.                                           *)
(***************************************************************************)
\* C9: the tier of a row of the classic leaderboard depends on the count
\* alone: 20 and more Master, 15 to 19 Expert, 10 to 14 Advanced, 5 to 9
\* Intermediate, fewer than 5 Beginner.
C9_ClassicTierByCount ==
    tpc = "classic" =>
        /\ challenges_solved >= 20 => achievement = "Master"
        /\ (15 <= challenges_solved /\ challenges_solved < 20) => achievement = "Expert"
        /\ (10 <= challenges_solved /\ challenges_solved < 15) => achievement = "Advanced"
        /\ (5 <= challenges_solved /\ challenges_solved < 10) => achievement = "Intermediate"
        /\ challenges_solved < 5 => achievement = "Beginner"

\* the row of a user with exactly 20 completions, the least count of a Master
C9_Witness ==
    /\ tpc = "classic" /\ challenges_solved = 20 /\ total_challenges = 25
    /\ achievement = "Master"

\* the completion rate solved / total * 100 reaches pct percent (the rate is 0
\* when there is no challenge)
RateReaches(pct) ==
    total_challenges > 0 /\ 100 * challenges_solved >= pct * total_challenges

MaxScanDirs == 2
MaxScanRows == 2

\* the body of a decimal literal of int(): digits, single underscores between
\* digits allowed
IsIntBody(s) ==
    /\ s # <<>>
    /\ IsDigitChar(s[1]) /\ IsDigitChar(s[Len(s)])
    /\ \A i \in 1..Len(s) : IsDigitChar(s[i]) \/ s[i] = "_"
    /\ \A i \in 1..(Len(s) - 1) : ~(s[i] = "_" /\ s[i + 1] = "_")

\* int(s) of a string: surrounding whitespace and one sign are accepted,
\* anything else raises ValueError (ok is FALSE)
PyInt(s) ==
    LET t == Strip(s)
        signed == t # <<>> /\ t[1] \in {"+", "-"}
        body == IF signed THEN Tail(t) ELSE t
        magnitude == IntOfDigits(FilterDigits(body))
    IN  IF IsIntBody(body)
        THEN [ok |-> TRUE,
              value |-> IF signed /\ t[1] = "-" THEN 0 - magnitude ELSE magnitude]
        ELSE [ok |-> FALSE, value |-> 0]

\* line.count('|')
CountPipes(line) == Cardinality({i \in 1..Len(line) : line[i] = "|"})

\* lines 67-79, one line of the file: the username it credits, if any
BadgeLineUser(line) ==
    IF CountPipes(line) < 4 THEN {}
    ELSE LET parts == Parts(line) IN
         IF ~(Len(parts) >= 4 /\ parts[2] # <<>> /\ ~StartsWith(parts[2], <<"-">>))
         THEN {}
         ELSE LET username == parts[2]
                  passed_tests == PyInt(parts[3])
                  total_tests == PyInt(parts[4])
              IN  IF ~passed_tests.ok \/ ~total_tests.ok THEN {}
                  ELSE IF passed_tests.value = total_tests.value /\ total_tests.value > 0
                  THEN {username}
                  ELSE {}

\* line 77: user_completions[username] = user_completions.get(username, 0) + 1
BadgeCredit(uc, us) ==
    [u \in (DOMAIN uc) \cup us |->
        (IF u \in DOMAIN uc THEN uc[u] ELSE 0) + (IF u \in us THEN 1 ELSE 0)]

\* lines 66-79: the loop over the lines of one file
RECURSIVE BadgeCreditLines(_, _)
BadgeCreditLines(uc, lines) ==
    IF lines = <<>> THEN uc
    ELSE BadgeCreditLines(BadgeCredit(uc, BadgeLineUser(Head(lines))), Tail(lines))

\* lines 56-83: one challenge directory
BadgeScanFile(uc, f) ==
    IF ~f.exists THEN uc ELSE BadgeCreditLines(uc, Split(f.content, NL))

DataRow(u, c, f) == [kind |-> "data", user |-> u, count |-> c, fmt |-> f]

\* the rows of the scoreboards scanned: completions written in three ways,
\* and a row with failed tests
ScanRows ==
    {DataRow(alice, <<5, 5>>, "plain"), DataRow(alice, <<5, 5>>, "tests"),
     DataRow(alice, <<5, 5>>, "open"), DataRow(bob, <<5, 5>>, "plain"),
     DataRow(bob, <<3, 5>>, "plain")}

\* the SCOREBOARD.md files a challenge directory may hold
ScanBoards ==
    {NoFile} \cup
    {FileWith(FileOf(HeaderRows \o rs)) :
        rs \in UNION {[1..n -> ScanRows] : n \in 0..MaxScanRows}}

ScanInit ==
    /\ repo \in UNION {[1..n -> ScanBoards] : n \in 0..MaxScanDirs}
    /\ badge_todo = 1..Len(repo)
    /\ badge_completions = <<>>
    /\ last = NoStep
    /\ script = "main" /\ gpc = "scan"
    /\ challenge_dirs = [i \in 1..Len(repo) |-> i]
    /\ package_dirs = <<>> /\ pkg_challenges = <<>>
    /\ pos = <<0, 1>> /\ board = NoFile /\ pending = {}
    /\ user_completions = <<>> /\ package_completions = <<>>
    /\ overall_completions = <<>>
    /\ sorted_users = <<>> /\ sorted_overall = <<>> /\ sorted_package_users = <<>>

\* generate_main_scoreboard, lines 113-128: one iteration over challenge_dirs
ScanMainChallenge ==
    /\ script = "main" /\ gpc = "scan"
    /\ pos[2] <= Len(challenge_dirs)
    /\ board' = repo[pos[2]]
    /\ user_completions' =
          IF repo[pos[2]].exists
          THEN CreditMain(user_completions, parse_scoreboard_file(repo[pos[2]]),
                          challenge_dirs[pos[2]])
          ELSE user_completions
    /\ last' = [scanner |-> "main", dir |-> pos[2], before |-> CountOf(user_completions)]
    /\ pos' = <<0, pos[2] + 1>>
    /\ UNCHANGED <<script, gpc, challenge_dirs, package_dirs, pkg_challenges, pending,
                   package_completions, overall_completions, sorted_users,
                   sorted_overall, sorted_package_users, repo, badge_todo,
                   badge_completions, pvars, svars, wvars, tvars, evars, rvars, xvars, bvars>>

\* scan_classic_challenges, lines 55-83: one iteration over challenge_dirs,
\* which iterdir() gives in any order
ScanBadgeChallenge ==
    /\ \E d \in badge_todo :
        /\ badge_completions' = BadgeScanFile(badge_completions, repo[d])
        /\ badge_todo' = badge_todo \ {d}
        /\ last' = [scanner |-> "badge", dir |-> d, before |-> badge_completions]
    /\ UNCHANGED <<repo, gvars, pvars, svars, wvars, tvars, evars, rvars, xvars, bvars>>

ScanNext == ScanMainChallenge \/ ScanBadgeChallenge

ScanSpecInit == ScanInit /\ PIdle /\ SIdle /\ WIdle /\ TIdle /\ EIdle /\ RIdle /\ XIdle /\ BIdle

SpecScan == ScanSpecInit /\ [][ScanNext]_vars

(***************************************************************************)
(* Claims about the two classic scans.                                     *)
(***************************************************************************)
\* the counts of the scanner that made the last step
CountsAfterLast ==
    IF last.scanner = "main" THEN CountOf(user_completions) ELSE badge_completions

CountIn(counts, u) == IF u \in DOMAIN counts THEN counts[u] ELSE 0

\* C11: a scanner credits a user at most one completion per challenge: the
\* visit of one challenge directory raises no count by more than 1, however
\* many completed rows its SCOREBOARD.md has for the user.
C11_OneCreditPerChallenge ==
    last.scanner # "none" =>
        \A u \in DOMAIN CountsAfterLast :
            CountIn(CountsAfterLast, u) - CountIn(last.before, u) <= 1

\* C12: when both scans are over, scan_classic_challenges and
\* generate_main_scoreboard have the same users with the same counts.
C12_BadgeCountsEqualMainCounts ==
    (pos[2] > Len(challenge_dirs) /\ badge_todo = {} /\ last.scanner # "none") =>
        badge_completions = CountOf(user_completions)

(***************************************************************************)
(* One run of a script as a process: `sys.exit(main())` of the two         *)
(* scoreboard scripts, `generator.run()` of the badge generator.  An       *)
(* exception that no handler catches leaves the entry point, and the       *)
(* interpreter then ends the process with exit code 1.                     *)
(***************************************************************************)
MaxEntryDirs == 2

\* the directories challenge-<suffix>: an integer suffix or another one,
\* without SCOREBOARD.md, with an empty table, with one completion
EntryDirs ==
    [suffix : {<<"1">>, <<"a", "b", "c">>},
     board : {NoFile, FileWith(FileOf(HeaderRows)),
              FileWith(FileOf(HeaderRows \o <<Row(alice, <<5, 5>>)>>))}]

\* the README.md files the run may find
EntryReadmes ==
    {NoFile, FileWith(<<TEXT>>), FileWith(<<KEY_FEATURES, NL, KEY_FEATURES_PLAIN, NL>>)}

\* the exit code of the interpreter after an uncaught exception
UncaughtExit == 1

EntryInit ==
    /\ entry \in {"main", "package", "badges"}
    /\ epc = "scan"
    /\ layout \in UNION {[1..n -> EntryDirs] : n \in 0..MaxEntryDirs}
    /\ epos = 1
    /\ credited = FALSE
    /\ exit_code = 0 - 1
    /\ escaped = "none"
    /\ readme \in EntryReadmes
    /\ before = readme
    /\ main_content = MainContent
    /\ package_content = <<PKG, NL, PACKAGE_BODY, NL, END_PKG, NL>>
    /\ log = <<>>

\* generate_main_scoreboard, lines 113-128: int(challenge_num) of line 126 is
\* evaluated for every user of the directory, outside any try
EntryMainScan ==
    /\ entry = "main" /\ epc = "scan" /\ epos <= Len(layout)
    /\ LET d == layout[epos]
           users_ == IF d.board.exists THEN parse_scoreboard_file(d.board) ELSE {}
       IN  IF users_ # {} /\ ~PyInt(d.suffix).ok
           THEN /\ escaped' = "ValueError"
                /\ exit_code' = UncaughtExit
                /\ epc' = "exited"
                /\ UNCHANGED <<epos, credited, rvars, xvars, bvars>>
           ELSE /\ credited' = (credited \/ users_ # {})
                /\ epos' = epos + 1
                /\ UNCHANGED <<epc, exit_code, escaped, rvars, xvars, bvars>>
    /\ UNCHANGED <<entry, layout, pvars, gvars, svars, wvars, tvars, cvars, rvars, xvars, bvars>>

\* generate_main_scoreboard, lines 144-148, and generate_html_leaderboard,
\* line 178: with a user to list, the suffix of every directory is converted
EntryMainRender ==
    /\ entry = "main" /\ epc = "scan" /\ epos > Len(layout)
    /\ IF credited /\ \E i \in 1..Len(layout) : ~PyInt(layout[i].suffix).ok
       THEN /\ escaped' = "ValueError"
            /\ exit_code' = UncaughtExit
            /\ epc' = "exited"
       ELSE /\ epc' = "update"
            /\ UNCHANGED <<exit_code, escaped, rvars, xvars, bvars>>
    /\ UNCHANGED <<entry, layout, epos, credited, pvars, gvars, svars, wvars, tvars, cvars, rvars, xvars, bvars>>

\* generate_package_scoreboard, lines 132-149: the directory name is kept as
\* it is (challenge_id), nothing is converted
EntryPackageScan ==
    /\ entry = "package" /\ epc = "scan" /\ epos <= Len(layout)
    /\ LET d == layout[epos]
           users_ == IF d.board.exists THEN parse_package_scoreboard_file(d.board) ELSE {}
       IN  credited' = (credited \/ users_ # {})
    /\ epos' = epos + 1
    /\ UNCHANGED <<entry, epc, layout, exit_code, escaped, pvars, gvars, svars, wvars,
                   tvars, cvars, rvars, xvars, bvars>>

\* generate_package_scoreboard, lines 151-236: the content is built
EntryPackageRender ==
    /\ entry = "package" /\ epc = "scan" /\ epos > Len(layout)
    /\ epc' = "update"
    /\ UNCHANGED <<entry, layout, epos, credited, exit_code, escaped, pvars, gvars,
                   svars, wvars, tvars, cvars, rvars, xvars, bvars>>

\* main(), lines 522-529 (main) and 408-415 (package), under sys.exit
EntryUpdateReadme ==
    /\ entry \in {"main", "package"} /\ epc = "update"
    /\ LET r == IF entry = "main"
                THEN update_readme_with_scoreboard(readme, main_content)
                ELSE update_readme_with_package_scoreboard(readme, package_content)
       IN  /\ readme' = r.file
           /\ exit_code' = ExitCode(r.ok)
    /\ before' = readme
    /\ epc' = "exited"
    /\ UNCHANGED <<entry, layout, epos, credited, escaped, main_content, package_content,
                   log, pvars, gvars, wvars, tvars, cvars, rvars, xvars, bvars>>

\* run, lines 428-433: scan_classic_challenges catches what a file raises
EntryBadgeScan ==
    /\ entry = "badges" /\ epc = "scan" /\ epos <= Len(layout)
    /\ credited' = (credited \/ DOMAIN BadgeScanFile(<<>>, layout[epos].board) # {})
    /\ epos' = epos + 1
    /\ UNCHANGED <<entry, epc, layout, exit_code, escaped, pvars, gvars, svars, wvars,
                   tvars, cvars, rvars, xvars, bvars>>

\* run, lines 438-493, and lines 684-686: the files are written with open()
\* outside any try; when a write fails the OSError leaves run(), otherwise
\* the script ends without calling sys.exit
EntryBadgeWrite ==
    /\ entry = "badges" /\ epc = "scan" /\ epos > Len(layout)
    /\ \E written \in BOOLEAN :
          IF written
          THEN exit_code' = 0 /\ escaped' = "none"
          ELSE exit_code' = UncaughtExit /\ escaped' = "OSError"
    /\ epc' = "exited"
    /\ UNCHANGED <<entry, layout, epos, credited, pvars, gvars, svars, wvars, tvars, cvars, rvars, xvars, bvars>>

EntryNext ==
    \/ EntryMainScan \/ EntryMainRender \/ EntryPackageScan \/ EntryPackageRender
    \/ EntryUpdateReadme \/ EntryBadgeScan \/ EntryBadgeWrite

EntrySpecInit == EntryInit /\ PIdle /\ GIdle /\ WIdle /\ TIdle /\ CIdle /\ RIdle /\ XIdle /\ BIdle

SpecEntry == EntrySpecInit /\ [][EntryNext]_vars

(***************************************************************************)
(* Claims about the end of a script run.                                   *)
(***************************************************************************)
\* C15: every run of a script ends with exit code 0 or 1 and with no
\* exception leaving the entry point, whatever the directories hold.
C15_NoExceptionEscapes ==
    epc = "exited" => exit_code \in {0, 1} /\ escaped = "none"

(***************************************************************************)
(* The leaderboards the generators render from their rankings:             *)
(* generate_main_scoreboard with generate_html_leaderboard, and            *)
(* generate_package_scoreboard with generate_package_html_leaderboard and  *)
(* generate_progress_bar.  A challenge directory is its name after         *)
(* challenge- and the set of users the parser returns for its SCOREBOARD.md*)
(* (empty when the file is missing).  Styling is left out of the rows.     *)
(***************************************************************************)
MaxRenderDirs == 2
MaxPlayers == 12

\* sorted_users[:10] and sorted_overall[:10]
TopOverall == 10

\* sorted_package_users[:5]
TopPackage == 5

\* the length of the text progress bar
BarLength == 10

Min(a, b) == IF a < b THEN a ELSE b

\* the first k of the users a, b, c, ...
Players(k) == {<<LowerCase[i]>> : i \in 1..k}

\* the sets of users of a directory: around the lengths of the tables
PlayerSets ==
    {Players(k) : k \in {0, 1, TopPackage + 1, TopOverall + 1, MaxPlayers}}

\* the names after challenge- of the directories of the repository root
Suffixes == {<<"1">>, <<"0", "1">>, <<"2">>}

\* as if the whole ranking were listed
TopN_All(seq, n) == seq

\* seq[:n]
TopN(seq, n) == SubSeq(seq, 1, Min(n, Len(seq)))

\* sorted(ns) for a sequence of integers
RECURSIVE SortedInts(_)
SortedInts(ns) ==
    IF ns = <<>> THEN <<>>
    ELSE LET i == CHOOSE i \in 1..Len(ns) : \A j \in 1..Len(ns) : ns[i] <= ns[j]
         IN  <<ns[i]>> \o
             SortedInts([k \in 1..(Len(ns) - 1) |-> IF k < i THEN ns[k] ELSE ns[k + 1]])

\* generate_progress_bar: the number of filled cells of the bar
generate_progress_bar(completed, total) ==
    IF total = 0 THEN 0 ELSE (completed * BarLength) \div total

\* the challenge directories a sorted listing gives for the names ss, with the
\* users us of each
TreeOf(pkg, ss, us) ==
    LET names == SortedNames(ss)
    IN  [i \in 1..Len(names) |->
            [package |-> pkg, suffix |-> names[i], users |-> us[names[i]]]]

RenderMainInit ==
    /\ script = "main" /\ gpc = "scan"
    /\ \E ss \in {s \in SUBSET Suffixes : Cardinality(s) <= MaxRenderDirs} :
       \E us \in [ss -> PlayerSets] :
          /\ tree = TreeOf(<<>>, ss, us)
          /\ challenge_dirs = [i \in 1..Len(tree) |-> PyInt(tree[i].suffix).value]
    /\ package_dirs = <<>> /\ pkg_challenges = <<>>

\* the challenge directories of packages/: those of cobra, then those of gin
RenderPackageInit ==
    /\ script = "package" /\ gpc = "scan"
    /\ challenge_dirs = <<>>
    /\ \E ps \in SUBSET PackageNames :
       \E n \in [ps -> 0..MaxRenderDirs] :
       \E us \in [{<<p, i>> : p \in ps, i \in 1..MaxRenderDirs} -> PlayerSets \ {Players(1)}] :
          /\ package_dirs = SortedNames(ps)
          /\ pkg_challenges = n
          /\ \A p \in ps : \A i \in 1..MaxRenderDirs : i > n[p] => us[<<p, i>>] = {}
          /\ LET dirs(p) == [i \in 1..n[p] |->
                                [package |-> p, suffix |-> StrOfNat(i),
                                 users |-> us[<<p, i>>]]]
             IN  tree = (IF cobra \in ps THEN dirs(cobra) ELSE <<>>)
                           \o (IF gin \in ps THEN dirs(gin) ELSE <<>>)

RenderInit ==
    /\ RenderMainInit \/ RenderPackageInit
    /\ pos = <<0, 1>> /\ board = NoFile /\ pending = {}
    /\ user_completions = <<>> /\ package_completions = <<>>
    /\ overall_completions = <<>>
    /\ sorted_users = <<>> /\ sorted_overall = <<>> /\ sorted_package_users = <<>>
    /\ leaderboard = <<>> /\ tables = <<>> /\ summary = NoSummary

\* the credits of lines 142-149 for the users us of one challenge of pkg
RECURSIVE CreditAllPackage(_, _, _)
CreditAllPackage(pc, pkg, us) ==
    IF us = {} THEN pc
    ELSE LET u == CHOOSE u \in us : TRUE
         IN  CreditAllPackage(CreditPackage(pc, pkg, u), pkg, us \ {u})

RECURSIVE CreditAllOverall(_, _, _)
CreditAllOverall(oc, pkg, us) ==
    IF us = {} THEN oc
    ELSE LET u == CHOOSE u \in us : TRUE
         IN  CreditAllOverall(CreditOverall(oc, pkg, u), pkg, us \ {u})

\* main lines 113-128: one iteration of the loop over challenge_dirs
RenderScanMain ==
    /\ script = "main" /\ gpc = "scan"
    /\ pos[2] <= Len(tree)
    /\ user_completions' =
          CreditMain(user_completions, tree[pos[2]].users, challenge_dirs[pos[2]])
    /\ pos' = <<0, pos[2] + 1>>
    /\ UNCHANGED <<script, gpc, challenge_dirs, package_dirs, pkg_challenges, board,
                   pending, package_completions, overall_completions, sorted_users,
                   sorted_overall, sorted_package_users, tree, leaderboard, tables,
                   summary, pvars, svars, wvars, tvars, cvars, evars, xvars, bvars>>

\* package lines 132-149: one iteration of the loop over the challenge
\* directories of the packages
RenderScanPackage ==
    /\ script = "package" /\ gpc = "scan"
    /\ pos[2] <= Len(tree)
    /\ LET d == tree[pos[2]]
       IN  /\ package_completions' =
                 CreditAllPackage(package_completions, d.package, d.users)
           /\ overall_completions' =
                 CreditAllOverall(overall_completions, d.package, d.users)
    /\ pos' = <<0, pos[2] + 1>>
    /\ UNCHANGED <<script, gpc, challenge_dirs, package_dirs, pkg_challenges, board,
                   pending, user_completions, sorted_users, sorted_overall,
                   sorted_package_users, tree, leaderboard, tables, summary,
                   pvars, svars, wvars, tvars, cvars, evars, xvars, bvars>>

\* main lines 130-132; package lines 162-163 and 182-185
RenderSort ==
    /\ gpc = "scan"
    /\ pos[2] > Len(tree)
    /\ sorted_users' = SortedBy(DOMAIN user_completions, CountOf(user_completions))
    /\ sorted_overall' =
          SortedBy(DOMAIN overall_completions, CountOf(overall_completions))
    /\ sorted_package_users' =
          [p \in DOMAIN package_completions |->
              SortedBy(DOMAIN package_completions[p], package_completions[p])]
    /\ gpc' = "sorted"
    /\ UNCHANGED <<script, challenge_dirs, package_dirs, pkg_challenges, pos, board,
                   pending, user_completions, package_completions,
                   overall_completions, tree, leaderboard, tables, summary,
                   pvars, svars, wvars, tvars, cvars, evars, xvars, bvars>>

\* generate_html_leaderboard lines 404-411: the indicators of one user
Indicators(data, challenge_numbers) ==
    LET completed_challenges == {data.challenges[k] : k \in 1..Len(data.challenges)}
    IN  [k \in 1..Len(challenge_numbers) |->
            [num |-> challenge_numbers[k],
             completed |-> challenge_numbers[k] \in completed_challenges]]

\* generate_html_leaderboard: the rows for top_users
generate_html_leaderboard(top_users, dirs) ==
    LET challenge_numbers == SortedInts(dirs)
    IN  [i \in 1..Len(top_users) |->
            [rank |-> i, username |-> top_users[i],
             count |-> user_completions[top_users[i]].count,
             indicators |-> Indicators(user_completions[top_users[i]],
                                       challenge_numbers)]]

\* main lines 143-168
RenderMain ==
    /\ script = "main" /\ gpc = "sorted"
    /\ leaderboard' =
          IF sorted_users # <<>>
          THEN generate_html_leaderboard(TopN(sorted_users, TopOverall), challenge_dirs)
          ELSE <<>>
    /\ summary' =
          [total |-> Len(challenge_dirs),
           active |-> Cardinality(DOMAIN user_completions),
           most_count |-> IF sorted_users # <<>>
                          THEN user_completions[sorted_users[1]].count ELSE 0,
           most_user |-> IF sorted_users # <<>> THEN sorted_users[1]
                         ELSE <<"N", "/", "A">>]
    /\ gpc' = "rendered"
    /\ UNCHANGED <<script, challenge_dirs, package_dirs, pkg_challenges, pos, board,
                   pending, user_completions, package_completions,
                   overall_completions, sorted_users, sorted_overall,
                   sorted_package_users, tree, tables, pvars, svars, wvars, tvars,
                   cvars, evars, xvars, bvars>>

\* generate_package_html_leaderboard: the rows for top_users
generate_package_html_leaderboard(top_users) ==
    [i \in 1..Len(top_users) |->
        [rank |-> i, username |-> top_users[i],
         count |-> overall_completions[top_users[i]].count,
         packages |-> Cardinality(overall_completions[top_users[i]].packages)]]

\* package lines 182-203: the table of one package
PackageTable(p) ==
    LET top == TopN(sorted_package_users[p], TopPackage)
    IN  [i \in 1..Len(top) |->
            [rank |-> i, username |-> top[i],
             count |-> package_completions[p][top[i]],
             filled |-> generate_progress_bar(package_completions[p][top[i]],
                                              pkg_challenges[p])]]

\* the sum of the challenge directories of the packages (lines 213-215)
RECURSIVE SumOver(_, _)
SumOver(f, S) ==
    IF S = {} THEN 0
    ELSE LET x == CHOOSE x \in S : TRUE IN f[x] + SumOver(f, S \ {x})

\* package lines 165-229
RenderPackage ==
    /\ script = "package" /\ gpc = "sorted"
    /\ leaderboard' =
          IF sorted_overall # <<>>
          THEN generate_package_html_leaderboard(TopN(sorted_overall, TopOverall))
          ELSE <<>>
    /\ tables' = [p \in DOMAIN package_completions |-> PackageTable(p)]
    /\ summary' =
          [total |-> SumOver(pkg_challenges, DOMAIN pkg_challenges),
           active |-> Cardinality(DOMAIN overall_completions),
           most_count |-> IF sorted_overall # <<>>
                          THEN overall_completions[sorted_overall[1]].count ELSE 0,
           most_user |-> IF sorted_overall # <<>> THEN sorted_overall[1] ELSE <<>>]
    /\ gpc' = "rendered"
    /\ UNCHANGED <<script, challenge_dirs, package_dirs, pkg_challenges, pos, board,
                   pending, user_completions, package_completions,
                   overall_completions, sorted_users, sorted_overall,
                   sorted_package_users, tree, pvars, svars, wvars, tvars, cvars,
                   evars, xvars, bvars>>

RenderSpecInit == RenderInit /\ PIdle /\ SIdle /\ WIdle /\ TIdle /\ CIdle /\ EIdle /\ XIdle /\ BIdle

RenderNext ==
    \/ RenderScanMain
    \/ RenderScanPackage
    \/ RenderSort
    \/ RenderMain
    \/ RenderPackage

SpecRender == RenderSpecInit /\ [][RenderNext]_vars

(***************************************************************************)
(* Claims about the rendered leaderboards.                                 *)
(***************************************************************************)
Rendered(s) == script = s /\ gpc = "rendered"

\* the users with at least one completion in the directories of the tree
Completers == UNION {tree[i].users : i \in 1..Len(tree)}

\* the directories of the tree whose scoreboard lists u
CompletedDirs(u) == {i \in 1..Len(tree) : u \in tree[i].users}

\* the completed glyphs of a row
Glyphs(row) == {k \in 1..Len(row.indicators) : row.indicators[k].completed}

\* C21: the progress column of each row of the classic leaderboard holds
\* exactly one indicator per challenge directory, ascending by numeric id, and
\* the number of completed glyphs equals the count of the user, which is the
\* number of directories whose scoreboard lists the user.
C21_OneIndicatorPerDirectory ==
    Rendered("main") =>
        \A r \in 1..Len(leaderboard) :
            LET row == leaderboard[r]
            IN  /\ Len(row.indicators) = Len(tree)
                /\ \A k \in 1..(Len(row.indicators) - 1) :
                      row.indicators[k].num <= row.indicators[k + 1].num
                /\ Cardinality(Glyphs(row)) = row.count
                /\ row.count = Cardinality(CompletedDirs(row.username))

\* rows lists the first min(n, length of ranking) users of ranking, with the
\* ranks 1, 2, ... in the order of the ranking
ListsFirst(table, ranking, n) ==
    /\ Len(table) = Min(n, Len(ranking))
    /\ \A i \in 1..Len(table) :
          table[i].rank = i /\ table[i].username = ranking[i]

\* the summary names the first user of ranking, who has the highest count
NamesLeader(ranking, count) ==
    ranking # <<>> =>
        /\ summary.most_user = ranking[1]
        /\ summary.most_count = count[ranking[1]]
        /\ \A u \in DOMAIN count : count[u] <= summary.most_count

\* C22: the classic and the overall package leaderboards list exactly the
\* first min(10, n) users of their ranking and each per-package table the first
\* min(5, n), with ranks 1, 2, ... in ranking order; the active count is the
\* number of all users with at least one completion; the most-solved line
\* names the first user of the ranking, whose count is the maximum.
C22_TablesListTopOfRanking ==
    /\ Rendered("main") =>
          /\ ListsFirst(leaderboard, sorted_users, 10)
          /\ summary.active = Cardinality(Completers)
          /\ NamesLeader(sorted_users, CountOf(user_completions))
    /\ Rendered("package") =>
          /\ ListsFirst(leaderboard, sorted_overall, 10)
          /\ DOMAIN tables = DOMAIN package_completions
          /\ \A p \in DOMAIN tables :
                ListsFirst(tables[p], sorted_package_users[p], 5)
          /\ summary.active = Cardinality(Completers)
          /\ NamesLeader(sorted_overall, CountOf(overall_completions))

\* a classic leaderboard cut to ten rows out of a longer ranking whose leader
\* is ahead of its last user
C22_Witness ==
    /\ Rendered("main")
    /\ Len(sorted_users) > 10 /\ Len(leaderboard) = 10
    /\ summary.most_count = 2
    /\ user_completions[sorted_users[Len(sorted_users)]].count = 1

(***************************************************************************)
(* test_scoreboards.py: main with backup_readme and restore_readme.  The   *)
(* files are opened in text mode, so reading translates the line endings.  *)
(* README.md is the variable readme and its content before the test the    *)
(* variable before.  KeyboardInterrupt can arrive at any point of the try  *)
(* block; backup_readme is followed in two steps there, because its        *)
(* open(backup_path, 'w') empties the backup before write fills it.        *)
(***************************************************************************)
MaxTestReadme == 3

CR == "\r"

TestTokens == {TEXT, NL, CR, TOP, KEY_FEATURES, KEY_FEATURES_PLAIN}

TestReadmes == UNION {[1..n -> TestTokens] : n \in 0..MaxTestReadme}

\* f.read() of a file opened with open(path, 'r'): \r\n and \r become \n
RECURSIVE TextRead(_)
TextRead(content) ==
    IF content = <<>> THEN <<>>
    ELSE IF Head(content) = CR
    THEN IF Len(content) >= 2 /\ content[2] = NL
         THEN <<NL>> \o TextRead(Tail(Tail(content)))
         ELSE <<NL>> \o TextRead(Tail(content))
    ELSE <<Head(content)>> \o TextRead(Tail(content))

\* backup_readme, lines 86-104: [ok, backup]
backup_readme(f, b) ==
    IF f.exists THEN [ok |-> TRUE, backup |-> FileWith(TextRead(f.content))]
    ELSE [ok |-> FALSE, backup |-> b]

\* restore_readme, lines 107-127: [readme, backup]
restore_readme(f, b) ==
    IF b.exists THEN [readme |-> FileWith(TextRead(b.content)), backup |-> NoFile]
    ELSE [readme |-> f, backup |-> b]

\* str.lower() of one character
Lower(c) ==
    IF \E i \in 1..26 : UpperCase[i] = c THEN LowerCase[IndexIn(UpperCase, c)] ELSE c

\* input(...).lower().strip(), line 197
KeepChanges(a) == Strip([i \in 1..Len(a) |-> Lower(a[i])])

\* what the user may type
Answers == {<<"y">>, <<"n">>, <<"Y">>, <<" ", "y">>, <<>>}

\* test_scenarios, lines 141-144
test_scenarios == <<<<"main", "package">>, <<"package", "main">>>>

\* the scripts of the idempotency test, lines 174-185
idempotency_runs == <<"main", "main", "package", "package">>

\* README.md after one run of a generator started by run_script
GeneratorRun(f, s) ==
    LET seen == IF f.exists THEN FileWith(TextRead(f.content)) ELSE f
        r == IF s = "main"
             THEN update_readme_with_scoreboard(seen, main_content)
             ELSE update_readme_with_package_scoreboard(seen, package_content)
    IN  IF r.ok THEN r.file ELSE f

TestInit ==
    /\ readme \in {NoFile} \cup {FileWith(c) : c \in TestReadmes}
    /\ before = readme
    /\ main_content = MainContent
    /\ package_content = <<PKG, NL, PACKAGE_BODY, NL, END_PKG, NL>>
    /\ log = <<>>
    /\ backup = NoFile /\ test_pc = "start" /\ scenario = 0 /\ todo = <<>>
    /\ started = <<>> /\ answer = <<>> /\ ending = "none"

\* lines 135-137: the backup before the try block
TestBackup ==
    /\ test_pc = "start"
    /\ LET r == backup_readme(readme, backup)
       IN  /\ backup' = r.backup
           /\ test_pc' = IF r.ok THEN "restore" ELSE "done"
           /\ ending' = IF r.ok THEN "none" ELSE "no_backup"
           /\ scenario' = IF r.ok THEN 1 ELSE 0
    /\ UNCHANGED <<todo, started, answer, svars, pvars, gvars, wvars, tvars, cvars,
                   evars, rvars, bvars>>

\* line 151: restore_readme() at the start of a scenario
TestRestore ==
    /\ test_pc = "restore"
    /\ LET r == restore_readme(readme, backup)
       IN  readme' = r.readme /\ backup' = r.backup
    /\ test_pc' = "backup_open"
    /\ UNCHANGED <<scenario, todo, started, answer, ending, before, main_content,
                   package_content, log, pvars, gvars, wvars, tvars, cvars, evars,
                   rvars, bvars>>

\* line 152, backup_readme up to open(backup_path, 'w')
TestBackupOpen ==
    /\ test_pc = "backup_open"
    /\ backup' = IF readme.exists THEN FileWith(<<>>) ELSE backup
    /\ test_pc' = "backup_write"
    /\ UNCHANGED <<scenario, todo, started, answer, ending, svars, pvars, gvars,
                   wvars, tvars, cvars, evars, rvars, bvars>>

\* line 152, backup_readme from backup.write(source.read()); the scenario then
\* starts with its scripts
TestBackupWrite ==
    /\ test_pc = "backup_write"
    /\ backup' = backup_readme(readme, backup).backup
    /\ started' = Append(started, readme)
    /\ todo' = test_scenarios[scenario]
    /\ test_pc' = "run"
    /\ UNCHANGED <<scenario, answer, ending, svars, pvars, gvars, wvars, tvars,
                   cvars, evars, rvars, bvars>>

\* lines 156-162 and 178, 188: one run_script
TestRunScript ==
    /\ test_pc \in {"run", "idempotency"}
    /\ todo # <<>>
    /\ readme' = GeneratorRun(readme, Head(todo))
    /\ todo' = Tail(todo)
    /\ UNCHANGED <<backup, test_pc, scenario, started, answer, ending, before,
                   main_content, package_content, log, pvars, gvars, wvars, tvars,
                   cvars, evars, rvars, bvars>>

\* lines 164-167: the end of a scenario; lines 169-171 after the last one
TestScenarioEnd ==
    /\ test_pc = "run"
    /\ todo = <<>>
    /\ IF scenario < Len(test_scenarios)
       THEN /\ scenario' = scenario + 1
            /\ test_pc' = "restore"
            /\ todo' = todo
       ELSE /\ scenario' = scenario
            /\ test_pc' = "idempotency"
            /\ todo' = idempotency_runs
    /\ UNCHANGED <<backup, started, answer, ending, svars, pvars, gvars, wvars,
                   tvars, cvars, evars, rvars, bvars>>

\* lines 196-212: the question and what follows the answer
TestAnswer ==
    /\ test_pc = "idempotency"
    /\ todo = <<>>
    /\ \E a \in Answers :
        /\ answer' = a
        /\ IF KeepChanges(a) # <<"y">>
           THEN LET r == restore_readme(readme, backup)
                IN  readme' = r.readme /\ backup' = r.backup
           ELSE readme' = readme /\ backup' = NoFile
    /\ ending' = "answer"
    /\ test_pc' = "done"
    /\ UNCHANGED <<scenario, todo, started, before, main_content, package_content,
                   log, pvars, gvars, wvars, tvars, cvars, evars, rvars, bvars>>

\* lines 218-221: input() raises EOFError
TestException ==
    /\ test_pc = "idempotency"
    /\ todo = <<>>
    /\ LET r == restore_readme(readme, backup)
       IN  readme' = r.readme /\ backup' = r.backup
    /\ ending' = "exception"
    /\ test_pc' = "done"
    /\ UNCHANGED <<scenario, todo, started, answer, before, main_content,
                   package_content, log, pvars, gvars, wvars, tvars, cvars, evars,
                   rvars, bvars>>

\* lines 214-217: KeyboardInterrupt anywhere in the try block
TestInterrupt ==
    /\ test_pc \in {"restore", "backup_open", "backup_write", "run", "idempotency"}
    /\ LET r == restore_readme(readme, backup)
       IN  readme' = r.readme /\ backup' = r.backup
    /\ ending' = "interrupt"
    /\ test_pc' = "done"
    /\ UNCHANGED <<scenario, todo, started, answer, before, main_content,
                   package_content, log, pvars, gvars, wvars, tvars, cvars, evars,
                   rvars, bvars>>

TestSpecInit ==
    TestInit /\ PIdle /\ GIdle /\ WIdle /\ TIdle /\ CIdle /\ EIdle /\ RIdle /\ BIdle

TestNext ==
    \/ TestBackup
    \/ TestRestore
    \/ TestBackupOpen
    \/ TestBackupWrite
    \/ TestRunScript
    \/ TestScenarioEnd
    \/ TestAnswer
    \/ TestException
    \/ TestInterrupt

SpecTest == TestSpecInit /\ [][TestNext]_vars

\* C23: in test_scoreboards.main every test scenario starts from the original
\* README content, and when the run ends with an answer other than y, or with
\* an exception or an interrupt after the backup was made, README.md is
\* byte-identical to its content before the test and README.md.backup no
\* longer exists.
C23_TestRestoresReadme ==
    /\ \A i \in 1..Len(started) : started[i] = before
    /\ (/\ test_pc = "done"
        /\ \/ ending \in {"exception", "interrupt"}
           \/ ending = "answer" /\ answer # <<"y">>)
          => (readme = before /\ ~backup.exists)

(***************************************************************************)
(* Claims about what the splices leave of the README.                      *)
(***************************************************************************)
\* the number of occurrences of tok in content
Count(content, tok) == Cardinality({i \in 1..Len(content) : content[i] = tok})

\* the package section of content, from its heading through its end marker;
\* empty when content has none
PackageSection(content) ==
    LET s == Find(content, PKG, 0)
        e == IF s = 0 - 1 THEN 0 - 1 ELSE Find(content, END_PKG, s)
    IN  IF e = 0 - 1 THEN <<>> ELSE SubSeq(content, s + 1, e + 1)

\* part occurs in content as one piece
OccursIn(part, content) ==
    \E i \in 0..(Len(content) - Len(part)) : SubSeq(content, i + 1, i + Len(part)) = part

\* C24: a run of the main script changes only its own region: a package
\* section that the README held (from the package heading through its end
\* marker) and every END_CLASSIC_LEADERBOARD marker, also one between the
\* classic heading and the Key Features header, are still there, unchanged,
\* after the run.
C24_MainRunKeepsOtherSections ==
    (Len(log) >= 1 /\ LastRun = <<"main", 0>>)
        => /\ OccursIn(PackageSection(before.content), readme.content)
           /\ Count(readme.content, END_CLASSIC) = Count(before.content, END_CLASSIC)

\* C25: after any sequence of successful runs of the main and the package
\* script with unchanged inputs, from any README, the README holds exactly one
\* occurrence of the start marker of each script that has run, and a repeated
\* run does not make it longer (stated for a repository that has a packages
\* directory).
C25_NoDuplicationNoGrowth ==
    (/\ Len(log) >= 1 /\ package_content # <<>>
     /\ \A i \in 1..Len(log) : log[i][2] = 0)
        => /\ \A i \in 1..Len(log) :
                Count(readme.content, IF log[i][1] = "main" THEN TOP ELSE PKG) = 1
           /\ (Len(log) >= 2 /\ PrevRun[1] = LastRun[1])
                => Len(readme.content) <= Len(before.content)

\* C26: when the repository has no packages directory, a run of the package
\* script leaves README.md byte-identical: a package section it holds is not
\* removed and nothing, not even a blank line, is inserted, on the first run
\* and on every later one.
C26_NoPackagesLeavesReadme ==
    (Len(log) >= 1 /\ LastRun[1] = "package" /\ package_content = <<>>)
        => readme = before

(***************************************************************************)
(* Claims about the counts against the number of challenge directories.    *)
(***************************************************************************)
\* the widths of the progress bars of the card and of the compact badge
CardBar == 140
CompactBar == 100

\* int((challenges_solved / total_challenges) * full) if total_challenges > 0
\* else 0
progress_width(solved, total, full) ==
    IF total > 0 THEN (solved * full) \div total ELSE 0

\* C27: in every scanner the count of a user never exceeds the number of
\* challenge directories it is reported against, so the completion rate is at
\* most 100% and the filled part of a progress bar at most its full width
\* (140 px on the card, 100 px on the compact badge).
C27_CountWithinDirectories ==
    /\ \A u \in DOMAIN user_completions : user_completions[u].count <= Len(repo)
    /\ \A u \in DOMAIN badge_completions :
          /\ badge_completions[u] <= Len(repo)
          /\ badge_completions[u] * 100 <= 100 * Len(repo)
          /\ progress_width(badge_completions[u], Len(repo), CardBar) <= CardBar
          /\ progress_width(badge_completions[u], Len(repo), CompactBar) <= CompactBar

(***************************************************************************)
(* Claims about the two tallies of the package scan.                       *)
(***************************************************************************)
\* the count of u in package p
PackageCount(p, u) ==
    IF u \in DOMAIN package_completions[p] THEN package_completions[p][u] ELSE 0

\* the sum of the counts of u over the packages ps
RECURSIVE PackageTotal(_, _)
PackageTotal(ps, u) ==
    IF ps = {} THEN 0
    ELSE LET p == CHOOSE p \in ps : TRUE
         IN  PackageCount(p, u) + PackageTotal(ps \ {p}, u)

\* C28: in generate_package_scoreboard, between the credits of the scan and at
\* its end, the overall count of each user is the sum over the packages of the
\* per-package counts, the packages set of the user holds exactly the packages
\* with a per-package count of at least 1, and every recorded user has an
\* overall count of at least 1.
C28_OverallIsSumOfPackages ==
    script = "package" =>
        /\ \A p \in DOMAIN package_completions :
              DOMAIN package_completions[p] \subseteq DOMAIN overall_completions
        /\ \A u \in DOMAIN overall_completions :
              /\ overall_completions[u].count
                    = PackageTotal(DOMAIN package_completions, u)
              /\ overall_completions[u].packages
                    = {p \in DOMAIN package_completions : PackageCount(p, u) >= 1}
              /\ overall_completions[u].count >= 1

\* the scan is over and a user has two completions in one package and one in
\* the other
C28_Witness ==
    /\ script = "package" /\ gpc = "done"
    /\ \E u \in DOMAIN overall_completions :
          /\ overall_completions[u].count = 3
          /\ overall_completions[u].packages = PackageNames

(***************************************************************************)
(* Claims about the order of the badge levels.                             *)
(***************************************************************************)
\* Beginner < Advanced < Expert < Master
LevelRank(level) ==
    CASE level = "Beginner" -> 0
      [] level = "Advanced" -> 1
      [] level = "Expert" -> 2
      [] level = "Master" -> 3

\* C29: get_achievement_level is monotone in solved for a fixed number of
\* challenges: the level of a contributor is never below the level that fewer
\* completions give (Beginner < Advanced < Expert < Master).
C29_LevelMonotoneInSolved ==
    tpc = "badge" =>
        \A fewer \in 0..challenges_solved :
            LevelRank(get_achievement_level(fewer, total_challenges))
                <= LevelRank(achievement)

\* 26 of 40 is a Master, and the completions below give all three lower levels
C29_Witness ==
    /\ tpc = "badge" /\ challenges_solved = 26 /\ total_challenges = 40
    /\ achievement = "Master"
    /\ get_achievement_level(25, 40) = "Expert"
    /\ get_achievement_level(19, 40) = "Advanced"
    /\ get_achievement_level(11, 40) = "Beginner"

(***************************************************************************)
(* BadgeGenerator.run, again and again over one repository whose           *)
(* scoreboards change between the runs.  badges/ is kept from run to run:  *)
(* __init__ makes it with mkdir(exist_ok=True).  The content of a per-user *)
(* file is what its text is built from: the classic count, the number of   *)
(* classic challenges and the package counts.                              *)
(***************************************************************************)
MaxBadgeDirs == 2
MaxBadgeRuns == 2

\* the SCOREBOARD.md files of a challenge directory
BadgeBoards ==
    {NoFile,
     FileWith(FileOf(HeaderRows \o <<DataRow(alice, <<5, 5>>, "plain")>>)),
     FileWith(FileOf(HeaderRows \o <<DataRow(bob, <<5, 5>>, "plain")>>)),
     FileWith(FileOf(HeaderRows \o <<DataRow(alice, <<5, 5>>, "plain"),
                                     DataRow(bob, <<3, 5>>, "plain")>>))}

BadgeRepos == UNION {[1..n -> BadgeBoards] : n \in 0..MaxBadgeDirs}

\* the challenge directories of packages/cobra, if there is a packages directory
BadgePackageTrees ==
    {NoPackages} \cup
    {[exists |-> TRUE, dirs |-> d] : d \in UNION {[1..n -> BadgeBoards] : n \in 0..1}}

\* the endings of the names of the per-user files, lines 447-468
badge_suffixes == {".json", ".svg", "_compact.svg", "_badges.md"}

\* lines 55-83: the loop over the challenge directories
RECURSIVE BadgeScanAll(_, _)
BadgeScanAll(uc, boards) ==
    IF boards = <<>> THEN uc
    ELSE BadgeScanAll(BadgeScanFile(uc, Head(boards)), Tail(boards))

\* scan_classic_challenges, lines 44-85
scan_classic_challenges(boards) == BadgeScanAll(<<>>, boards)

\* scan_package_challenges, lines 87-134: user -> package -> count
scan_package_challenges(t) ==
    IF ~t.exists THEN <<>>
    ELSE LET uc == BadgeScanAll(<<>>, t.dirs)
         IN  [u \in DOMAIN uc |-> [p \in {cobra} |-> uc[u]]]

\* lines 440-468: the files written for the contributors
BadgeFilesOf(classic, total, stats) ==
    [f \in [user : (DOMAIN classic) \cup (DOMAIN stats), suffix : badge_suffixes] |->
        [solved |-> IF f.user \in DOMAIN classic THEN classic[f.user] ELSE 0,
         total |-> total,
         packages |-> IF f.user \in DOMAIN stats THEN stats[f.user] ELSE <<>>]]

BadgeInit ==
    /\ repo \in BadgeRepos
    /\ packages_tree \in BadgePackageTrees
    /\ badge_todo = {} /\ badge_completions = <<>> /\ last = NoStep
    /\ badges_dir = <<>> /\ package_stats = <<>> /\ total_classic = 0
    /\ badge_runs = 0

\* run, lines 424-497
BadgeRun ==
    /\ badge_runs < MaxBadgeRuns
    /\ badge_completions' = scan_classic_challenges(repo)
    /\ total_classic' = Len(repo)
    /\ package_stats' = scan_package_challenges(packages_tree)
    /\ LET written == BadgeFilesOf(badge_completions', total_classic', package_stats')
       IN  badges_dir' =
              [f \in (DOMAIN badges_dir) \cup (DOMAIN written) |->
                  IF f \in DOMAIN written THEN written[f] ELSE badges_dir[f]]
    /\ badge_runs' = badge_runs + 1
    /\ UNCHANGED <<repo, packages_tree, badge_todo, last, pvars, gvars, svars, wvars,
                   tvars, evars, rvars, xvars>>

\* between two runs the scoreboards of the repository change
BadgeScoreboardsChange ==
    /\ badge_runs \in 1..(MaxBadgeRuns - 1)
    /\ repo' \in BadgeRepos
    /\ packages_tree' \in BadgePackageTrees
    /\ <<repo', packages_tree'>> # <<repo, packages_tree>>
    /\ UNCHANGED <<badge_todo, badge_completions, last, badges_dir, package_stats,
                   total_classic, badge_runs, pvars, gvars, svars, wvars, tvars, evars, rvars, xvars>>

BadgeSpecInit ==
    BadgeInit /\ PIdle /\ GIdle /\ SIdle /\ WIdle /\ TIdle /\ EIdle /\ RIdle /\ XIdle

BadgeNext == BadgeRun \/ BadgeScoreboardsChange

SpecBadges == BadgeSpecInit /\ [][BadgeNext]_vars

\* C30: after any sequence of runs of the badge generator over changing
\* scoreboards, the per-user files of the badges directory exist exactly for
\* the users with at least one classic or package completion in the most
\* recent scan, with the content of that scan: no file of a user without a
\* completion survives from an earlier run.
C30_BadgeFilesOfLastScan ==
    badge_runs >= 1 =>
        badges_dir = BadgeFilesOf(badge_completions, total_classic, package_stats)

====
